---- MODULE Spec2Model ----
(***************************************************************************)
(* Dispatch engine of the P09 autoprocessing script: main()'s scan loop,   *)
(* run() (eligibility, force clean-up, classification), the rotational,    *)
(* wedge and serial pipelines down to every sbatch call, and the capacity  *)
(* guard.  One engine instance; the file system and the scheduler are the  *)
(* environment, whose answers are drawn with \E where the code asks.       *)
(***************************************************************************)
EXTENDS Integers, Sequences, FiniteSets, TLC

\* ------------------------------------------------------------- bounds
\* sweeps of the raw tree that are explored (main's while True is unbounded)
MaxPasses == 2
\* squeue answers of 0..MaxLines lines are explored
MaxLines == 27
\* entries whose deletion may fail during one force clean-up
MaxDeleteFailures == 1

\* -------------------------------------------------- program constants
LIMIT_FOR_RESERVED_NODES == 25
MAX_PENDING_JOBS == 200
chunk_size == 1000
split_lines == 250

None == "None"

\* ------------------------------------------------------- descriptor text
\* A line of info.txt is the sequence of its fields, i.e. line.split(':').
\* What Python's str.strip, str.lower, int() and the number regex do on the
\* fields that occur is tabulated here: int is int(field.strip()) and num the
\* first number in the field, in hundredths (the regex of extract.py); each
\* is a set, empty when int() raises or the regex finds nothing.
Field(strip, lower, int, num) ==
    [strip |-> strip, lower |-> lower, int |-> int, num |-> num]

\* float() of a literal beyond the range of a double
Inf == 1000000000

FieldTable ==
       "method"           :> Field("method", "method", {}, {})
    @@ "rotational"       :> Field("rotational", "rotational", {}, {})
    @@ " rotational"      :> Field("rotational", " rotational", {}, {})
    @@ " grid step"       :> Field("grid step", " grid step", {}, {})
    @@ " serial"          :> Field("serial", " serial", {}, {})
    @@ "frames/position"  :> Field("frames/position", "frames/position", {}, {})
    @@ "Frames/Position"  :> Field("Frames/Position", "frames/position", {}, {})
    @@ "frames"           :> Field("frames", "frames", {}, {})
    @@ "wavelength"       :> Field("wavelength", "wavelength", {}, {})
    @@ " 1"               :> Field("1", " 1", {1}, {100})
    @@ " 5"               :> Field("5", " 5", {5}, {500})
    @@ " abc"             :> Field("abc", " abc", {}, {})
    @@ " 100"             :> Field("100", " 100", {100}, {10000})
    @@ " 2500"            :> Field("2500", " 2500", {2500}, {250000})
    @@ " 0.98"            :> Field("0.98", " 0.98", {}, {98})
    @@ "indexing_method"  :> Field("indexing_method", "indexing_method", {}, {})
    @@ " xgandalf"        :> Field("xgandalf", " xgandalf", {}, {})
    @@ " file"            :> Field("file", " file", {}, {})
    @@ "a.cell "          :> Field("a.cell", "a.cell ", {}, {})
    @@ "distance"         :> Field("distance", "distance", {}, {})
    @@ " -2.7"            :> Field("-2.7", " -2.7", {}, {-270})
    @@ " 1.5e2"           :> Field("1.5e2", " 1.5e2", {}, {15000})
    @@ " 1e400"           :> Field("1e400", " 1e400", {}, {Inf})
    @@ "frames set 2"     :> Field("frames set 2", "frames set 2", {}, {200})

\* str.lstrip and str.rstrip, for the fields that stand at the ends of a
\* text of several fields
LStrip == " file" :> "file"
RStrip == "a.cell " :> "a.cell"

\* the keys the code searches that each field contains, letter for letter
KeysIn ==
       "frames/position"  :> {"frames", "frames/position"}
    @@ "frames"           :> {"frames"}
    @@ "frames set 2"     :> {"frames"}
    @@ "wavelength"       :> {"wavelength"}
    @@ "indexing_method"  :> {"indexing_method"}
    @@ "distance"         :> {"distance"}

\* `word in field`, case-sensitive
FieldHas(f, word) == f \in DOMAIN KeysIn /\ word \in KeysIn[f]

Last(s) == s[Len(s)]

Lrot      == <<"method", " rotational">>
LrotBare  == <<"rotational">>
Lgrid     == <<"method", " grid step">>
Lserial   == <<"method", " serial">>
Lfpp5     == <<"frames/position", " 5">>
LFpp5     == <<"Frames/Position", " 5">>
Lfpp1     == <<"frames/position", " 1">>
LfppBad   == <<"frames/position", " abc">>
Lframes100  == <<"frames", " 100">>
Lframes2500 == <<"frames", " 2500">>
Lwave     == <<"wavelength", " 0.98">>

\* the contents of info.txt that are explored; <<>> is the empty file
Descriptors ==
    { <<>>,
      <<Lrot, Lwave>>,
      <<LrotBare, Lfpp5>>,
      <<Lgrid, LFpp5, Lwave>>,
      <<Lgrid, LfppBad>>,
      <<Lgrid, Lfpp1, Lframes100, Lwave>>,
      <<Lserial, Lframes100, Lwave>>,
      <<Lserial, Lframes2500, Lwave>>,
      <<Lserial, Lframes100>> }

\* ------------------------------------------------------------ raw files
\* A data file name: pos and frame are the numbers of <prefix>_<6 digits>_<5
\* digits>.cbf (0 when the name has no such part); idx is what
\* int(name.split(".")[0].split("_")[-1]) gives, as a set that is empty when
\* int() raises.
FileName(name, ext, master, pos, frame, idx) ==
    [name |-> name, ext |-> ext, master |-> master, pos |-> pos,
     frame |-> frame, idx |-> idx]

Master  == FileName("x_master.h5", "h5", TRUE, 0, 0, {})
Data1   == FileName("x_data_000001.h5", "h5", FALSE, 0, 0, {1})
Cbf11   == FileName("s_000001_00001.cbf", "cbf", FALSE, 1, 1, {1})
Cbf12   == FileName("s_000001_00002.cbf", "cbf", FALSE, 1, 2, {2})
Cbf21   == FileName("s_000002_00001.cbf", "cbf", FALSE, 2, 1, {1})
Notes   == FileName("notes.dat", "dat", FALSE, 0, 0, {})
MasterA == FileName("a_master.cxi", "cxi", TRUE, 0, 0, {})

\* the place of each name when names are sorted as Python sorts strings
SortRank ==
       "a_master.cxi" :> 1 @@ "notes.dat" :> 2 @@ "s_000001_00001.cbf" :> 3
    @@ "s_000001_00002.cbf" :> 4 @@ "s_000002_00001.cbf" :> 5
    @@ "x_data_000001.h5" :> 6 @@ "x_master.h5" :> 7

\* each name cut so that every match of _master\. and of \d+\. is a piece
PathParts ==
       "a_master.cxi" :> <<"a", "_master.", "cxi">>
    @@ "notes.dat" :> <<"notes.dat">>
    @@ "s_000001_00001.cbf" :> <<"s_000001_", "00001.", "cbf">>
    @@ "s_000001_00002.cbf" :> <<"s_000001_", "00002.", "cbf">>
    @@ "s_000002_00001.cbf" :> <<"s_000002_", "00001.", "cbf">>
    @@ "x_data_000001.h5" :> <<"x_data_", "000001.", "h5">>
    @@ "x_master.h5" :> <<"x", "_master.", "h5">>

\* '?' * (len(m.group()) - 1) + '.' for the matches of \d+\. that occur
QuestionMarks ==
    "00001." :> "?????." @@ "00002." :> "?????." @@ "000001." :> "??????."

\* the sets of regular files beside info.txt that are explored
FileSets ==
    { {}, {Notes}, {Master, Data1}, {Data1, Notes}, {Cbf11, Cbf12, Cbf21} }

Folders == <<"f1", "f2">>
FolderSet == {Folders[i] : i \in 1..Len(Folders)}

VARIABLES
    is_force,      \* --force
    is_maxwell,    \* --maxwell
    configuration, \* what main() adds to the configuration from the metadata
    info,          \* folder -> info.txt: whether it exists, and its lines
    files,         \* folder -> regular files beside info.txt
    proc,          \* folder -> mirrored output directory
    pc,            \* where main()/run()/the pipeline stands
    pass,          \* number of the current sweep
    todo,          \* folders os.walk has still to yield in this sweep
    root,          \* the folder run() is working on
    d,             \* locals of the current dispatch
    plan,          \* the pipeline's remaining steps
    squeue,        \* the capacity query made for the job being built
    script,        \* the job script written last
    submitted,     \* folder -> sweeps in which sbatch was called for it
    error,         \* the exception that ended the process, or None
    worklist,      \* --blocks: the file's lines, to_process, the loop's place
    rendering,     \* one template, its renderer and the file it writes
    grouping,      \* one call of group_cbf_by_position
    extraction,    \* one call of extract_value_from_info
    metadata,      \* one call of find_and_parse_metadata
    online,        \* main() without --offline: --path and what was done
    peer,          \* a second instance of the program, in its run()
    startup,       \* main() before its modes: the wait for the raw directory
    waiting,       \* one wait for an input file
    mirror,        \* run()'s output path for two folders
    chunks         \* one serial dispatch, by the numbers of its frames

\* the command-line flags and the configuration, fixed once main() has read them
args == <<is_force, is_maxwell, configuration>>

\* the state of the functions that are checked on their own
earlier == <<worklist, rendering, grouping, extraction, metadata>>

\* the state of the other parts of main() that are checked on their own
later == <<online, peer, startup, waiting, mirror, chunks>>

aside == <<earlier, later>>

\* main()'s loop, run() and the pipelines
engine == <<args, info, files, proc, pc, pass, todo, root, d, plan, squeue,
            script, submitted, error>>

vars == <<args, aside, info, files, proc, pc, pass, todo, root, d,
          plan, squeue, script, submitted, error>>

Min(S) == CHOOSE x \in S : \A y \in S : x <= y

\* ----------------------------------------------- run(): reading info.txt
\* len(files) counts info.txt too
NFiles(f) == Cardinality(files[f]) + (IF info[f].exists THEN 1 ELSE 0)

\* as Eligible, with len(files) > 0 for len(files) > 1
EligibleOffByOne(f) == info[f].exists /\ info[f].lines # <<>> /\ NFiles(f) > 0

\* the condition of run()'s early return, negated
Eligible(f) == info[f].exists /\ info[f].lines # <<>> /\ NFiles(f) > 1

\* method = next(f).split(':')[-1].strip()
Method(lines) == FieldTable[Last(lines[1])].strip

\* 'frames/position:' in line.lower()
HasFppKey(line) ==
    \E k \in 1..(Len(line) - 1) : FieldTable[line[k]].lower = "frames/position"

\* frames_per_position: the default 1, or int() of the last field of the
\* first later line that holds the key; raised when int() raises ValueError
FramesPerPosition(lines) ==
    LET hits == {i \in 2..Len(lines) : HasFppKey(lines[i])}
        val  == FieldTable[Last(lines[Min(hits)])].int
    IN  IF hits = {} THEN [raised |-> FALSE, value |-> 1]
        ELSE IF val = {} THEN [raised |-> TRUE, value |-> 1]
        ELSE [raised |-> FALSE, value |-> CHOOSE v \in val : TRUE]

\* the if/elif/else at the end of run()
Classify(method, frames_per_position) ==
    IF method = "rotational" THEN "rotational"
    ELSE IF method = "grid step" /\ frames_per_position > 1 THEN "wedge"
    ELSE "serial"

\* ---------------------------------------------- extract_value_from_info
\* `key in line`
LineHas(line, key) == \E k \in 1..Len(line) : FieldHas(line[k], key)

\* re.search of the number pattern in the line: the first number, in
\* hundredths, as a set that is empty when the line holds none
LineNum(line) ==
    LET ks == {k \in 1..Len(line) : FieldTable[line[k]].num # {}}
    IN  IF ks = {} THEN {} ELSE FieldTable[line[Min(ks)]].num

\* int(float(x)) for x in hundredths: towards zero
Trunc(h) == IF h >= 0 THEN h \div 100 ELSE -((-h) \div 100)

\* str.strip of a text of several fields
StripEnds(fields) ==
    IF Len(fields) = 1 THEN <<FieldTable[fields[1]].strip>>
    ELSE <<LStrip[fields[1]]>> \o SubSeq(fields, 2, Len(fields) - 1)
            \o <<RStrip[Last(fields)]>>

\* as AfterFirstColon, with line.split(":")[-1] for line.split(":", 1)[-1]
AfterLastColon(line) == <<FieldTable[Last(line)].strip>>

\* line.split(":", 1)[-1].strip(), as the fields of the text
AfterFirstColon(line) ==
    IF Len(line) = 1 THEN <<FieldTable[line[1]].strip>>
    ELSE StripEnds(Tail(line))

\* The try block.  A file is [exists, readable, lines]; open() raises when
\* the file is absent or cannot be read.  In string mode the first line
\* with the key returns; in numeric mode the first line with the key and a
\* number returns, unless int() of an infinite float raises.
extract_try(file, key, is_float, is_string) ==
    LET lines == file.lines
        hits == {i \in 1..Len(lines) :
                    /\ LineHas(lines[i], key)
                    /\ is_string \/ LineNum(lines[i]) # {}}
        line == lines[Min(hits)]
        n == CHOOSE v \in LineNum(line) : TRUE
    IN  IF ~file.exists THEN [kind |-> "raise", value |-> "FileNotFoundError"]
        ELSE IF ~file.readable THEN [kind |-> "raise", value |-> "PermissionError"]
        ELSE IF hits = {} THEN [kind |-> "fall", value |-> None]
        ELSE IF is_string THEN [kind |-> "return", value |-> AfterFirstColon(line)]
        ELSE IF is_float THEN [kind |-> "return", value |-> n]
        ELSE IF n = Inf THEN [kind |-> "raise", value |-> "OverflowError"]
        ELSE [kind |-> "return", value |-> Trunc(n)]

\* fallback: the caller's (a set of one value), or "" / 0 when it is None
Fallback(fallback, is_string) ==
    IF fallback # {} THEN CHOOSE v \in fallback : TRUE
    ELSE IF is_string THEN <<"">> ELSE 0

\* as extract_value_from_info, without the except clause
extract_value_uncaught(file, key, fallback, is_float, is_string) ==
    LET r == extract_try(file, key, is_float, is_string)
    IN  IF r.kind = "raise"
        THEN [raised |-> r.value, value |-> Fallback(fallback, is_string)]
        ELSE [raised |-> None,
              value |-> IF r.kind = "return" THEN r.value
                        ELSE Fallback(fallback, is_string)]

\* extract_value_from_info: floats are in hundredths, a text is the
\* sequence of its fields; raised tells what leaves the function
extract_value_from_info(file, key, fallback, is_float, is_string) ==
    LET r == extract_try(file, key, is_float, is_string)
    IN  [raised |-> None,
         value |-> IF r.kind = "return" THEN r.value
                   ELSE Fallback(fallback, is_string)]

\* info.txt of a raw folder, as run() has found it
info_path(f) ==
    [exists |-> info[f].exists, readable |-> TRUE, lines |-> info[f].lines]

\* NFRAMES of filling_template_serial: is_float=False, fallback 1
NFRAMES(f) ==
    extract_value_from_info(info_path(f), "frames", {1}, FALSE, FALSE).value

\* WAVELENGTH of filling_template_serial, in hundredths, fallback 0
WAVELENGTH(f) ==
    extract_value_from_info(info_path(f), "wavelength", {}, TRUE, FALSE).value

\* ------------------------------------------------------- capacity guard
\* What the squeue call can do: print some lines, exit non-zero
\* (CalledProcessError), or fail to start at all (OSError, e.g. the
\* FileNotFoundError of a missing squeue binary).
Answer(kind, lines) == [kind |-> kind, lines |-> lines]

QueryOutcomes ==
    {Answer("ok", n) : n \in 0..MaxLines}
        \cup {Answer("CalledProcessError", 0), Answer("OSError", 0)}

\* as are_the_reserved_nodes_overloaded, with >= for >
overloaded_at_limit(answer) ==
    LET all_jobs == IF answer.kind = "ok" THEN answer.lines ELSE 0
    IN  [raised |-> answer.kind = "OSError",
         value  |-> all_jobs >= LIMIT_FOR_RESERVED_NODES]

\* are_the_reserved_nodes_overloaded: only CalledProcessError is caught
are_the_reserved_nodes_overloaded(answer) ==
    LET all_jobs == IF answer.kind = "ok" THEN answer.lines ELSE 0
    IN  [raised |-> answer.kind = "OSError",
         value  |-> all_jobs > LIMIT_FOR_RESERVED_NODES]

NoQuery == [asked |-> FALSE, answer |-> Answer("ok", 0), overloaded |-> FALSE]

\* the pending-jobs query of run() answers with few or with too many lines
PendingOutcomes ==
    {Answer("ok", 0), Answer("ok", MAX_PENDING_JOBS + 1),
     Answer("CalledProcessError", 0), Answer("OSError", 0)}

\* ----------------------------------------------------------- job scripts
slurm_partition == "ponline_p09"

\* a line that is written only under a condition
Optional(written, line) == IF written THEN <<line>> ELSE <<>>

\* rotational.build_sbatch_script
build_sbatch_script(reservation, limits) ==
    <<"#!/bin/sh", "--job-name", "--partition", "--nodes=1", "--output",
      "--error">>
    \o Optional(reservation # None, "--reservation")
    \o Optional("time" \in limits, "--time")
    \o Optional("mem" \in limits, "--mem")
    \o Optional("nice" \in limits, "--nice")
    \o <<"source modules.sh", "module load", "command">>

\* get_slurm_header of wedges.xds_start
get_slurm_header(reservation, limits) ==
    <<"#!/bin/sh", "--job-name", "--partition", "--nodes=1", "--output",
      "--error">>
    \o Optional(reservation # None, "--reservation")
    \o Optional("time" \in limits, "--time")
    \o Optional("nice" \in limits, "--nice")
    \o Optional("mem" \in limits, "--mem")

\* get_common_xds_commands of wedges.xds_start
get_common_xds_commands ==
    <<"source modules.sh", "module load", "command", "sleep", "cd", "cp",
      "cp", "mv", "sed", "sed", "command">>

\* sbatch_command of serial_data_processing and the two writes
sbatch_command(reservation, limits) ==
    <<"#!/bin/sh", "--job-name", "--output", "--error">>
    \o (IF limits = {}
        THEN <<"--partition">>
             \o Optional(reservation # None, "--reservation")
        ELSE <<"--partition", "--time", "--nodes=1", "--nice", "--mem">>)
    \o <<"module load", "", "command", "touch">>

ScriptText(pipeline, reservation, limits) ==
    CASE pipeline = "rotational" -> build_sbatch_script(reservation, limits)
      [] pipeline = "wedge" ->
            get_slurm_header(reservation, limits) \o get_common_xds_commands
      [] pipeline = "serial" -> sbatch_command(reservation, limits)
      [] OTHER -> <<>>

\* A job script, by its resource directives: partition is the value of
\* --partition, reservation the value of --reservation (None when the line
\* is not written), limits the set of --time/--mem/--nice lines written,
\* relay whether sbatch is called through ssh.
\* The text of a script is the sequence of its lines, each named by what
\* it sets; executable tells whether chmod 0o755 was done on the file
\* before sbatch is called on it.
Script(pipeline, kind, partition, reservation, limits, relay) ==
    [pipeline |-> pipeline, kind |-> kind, partition |-> partition,
     reservation |-> reservation, limits |-> limits, relay |-> relay,
     text |-> ScriptText(pipeline, reservation, limits),
     executable |-> pipeline # "none"]

NoScript == Script("none", "none", "none", None, {}, FALSE)

\* the node lists find_and_parse_metadata can hand over: the names joined
\* with commas, or "" when the metadata names no reserved node
NodeLists == {"max-p3a020,max-p3a021", ""}

\* the --time, --mem and --nice lines of the maxwell branches
MaxwellLimits == {"time", "mem", "nice"}

\* `if reservation:` of build_sbatch_script and get_slurm_header
ReservationLine(reservation) == IF reservation = "" THEN None ELSE reservation

\* a job the pipeline is about to build: nodes is the reserved_nodes
\* argument (the configured node list, or "maxwell"), login tells whether
\* the login node passed is a non-empty name, at is the position or chunk
Job(kind, nodes, login, at) ==
    [op |-> "job", kind |-> kind, nodes |-> nodes, login |-> login, at |-> at]

\* rotational.xds_start with build_sbatch_script
rotational_script(job, overloaded) ==
    IF job.nodes # "maxwell"
    THEN IF ~overloaded
         THEN Script("rotational", job.kind, slurm_partition,
                     ReservationLine(job.nodes), {}, job.login)
         ELSE Script("rotational", job.kind, "allcpu,upex,short", None, {},
                     job.login)
    ELSE Script("rotational", job.kind, "allcpu,upex,short", None,
                MaxwellLimits, job.login)

\* wedges.xds_start
wedges_script(job, overloaded) ==
    IF job.nodes = "maxwell"
    THEN Script("wedge", job.kind, "allcpu,upex", None, MaxwellLimits, FALSE)
    ELSE Script("wedge", job.kind,
                IF ~overloaded THEN slurm_partition ELSE "allcpu,upex,short",
                IF ~overloaded THEN ReservationLine(job.nodes) ELSE None,
                {}, job.login)

\* the script written in serial_data_processing's loop: the reservation
\* line is written whatever the node list is, and the ssh command is built
\* whatever the login node is
serial_script(job, overloaded) ==
    IF job.nodes # "maxwell"
    THEN Script("serial", job.kind,
                IF ~overloaded THEN slurm_partition ELSE "allcpu,upex,short",
                IF ~overloaded THEN job.nodes ELSE None,
                {}, TRUE)
    ELSE Script("serial", job.kind, "allcpu,upex,short", None, MaxwellLimits,
                FALSE)

BuildScript(pipeline, job, overloaded) ==
    CASE pipeline = "rotational" -> rotational_script(job, overloaded)
      [] pipeline = "wedge"      -> wedges_script(job, overloaded)
      [] OTHER                   -> serial_script(job, overloaded)

\* ------------------------------------------------------- pipeline plans
Step(op, at) == [op |-> op, kind |-> "none", nodes |-> "none", login |-> FALSE, at |-> at]

\* reserved_nodes as xds_start/wedges_xds_start/serial_start pass it on
reserved_nodes ==
    IF is_maxwell THEN "maxwell" ELSE configuration.reserved_nodes

\* reserved_nodes.split(",")[0] if "," in reserved_nodes else reserved_nodes
FirstNode(nodes) ==
    IF nodes = "max-p3a020,max-p3a021" THEN "max-p3a020" ELSE nodes

\* login_node: None with "maxwell", else the first reserved node
login_node ==
    IF reserved_nodes = "maxwell" THEN None ELSE FirstNode(reserved_nodes)

\* `if login_node:` of the two xds_start
has_login_node == login_node # None /\ login_node # ""

\* res of rotational_processing: master .h5/.cxi files and .cbf files
RotationalFrames(f) ==
    {x \in files[f] : (x.ext \in {"h5", "cxi"} /\ x.master) \/ x.ext = "cbf"}

\* as FirstFrame, without res.sort(): the file that sorts last
LastFrame(f) ==
    CHOOSE x \in RotationalFrames(f) :
        \A y \in RotationalFrames(f) : SortRank[y.name] <= SortRank[x.name]

\* res[0] after res.sort()
FirstFrame(f) ==
    CHOOSE x \in RotationalFrames(f) :
        \A y \in RotationalFrames(f) : SortRank[x.name] <= SortRank[y.name]

\* NAME_TEMPLATE_OF_DATA_FRAMES of rotational_processing: the path of the
\* first frame file with every _master. replaced by _??????. when the path
\* holds 'master', and with the digits of every <digits>. replaced by
\* question marks otherwise.  The folder part of the path is kept as the
\* folder's name; it holds neither 'master' nor a digit followed by a dot.
NAME_TEMPLATE_OF_DATA_FRAMES(f) ==
    LET parts == PathParts[FirstFrame(f).name]
    IN  [folder |-> f,
         parts |->
            IF FirstFrame(f).master
            THEN [i \in 1..Len(parts) |->
                    IF parts[i] = "_master." THEN "_??????." ELSE parts[i]]
            ELSE [i \in 1..Len(parts) |->
                    IF parts[i] \in DOMAIN QuestionMarks
                    THEN QuestionMarks[parts[i]] ELSE parts[i]]]


\* as rotational_plan, with the autoPROC job given the node setting of the
\* dispatch
rotational_plan_reserved(f) ==
    IF RotationalFrames(f) = {} THEN <<>>
    ELSE << Step("fill", 0),
            Job("XDS", reserved_nodes, has_login_node, 0),
            Job("autoPROC", reserved_nodes, has_login_node, 0),
            Step("flag", 0) >>

\* rotational_processing after its directories are made
rotational_plan(f) ==
    IF RotationalFrames(f) = {} THEN <<>>
    ELSE << Step("fill", 0),
            Job("XDS", reserved_nodes, has_login_node, 0),
            Job("autoPROC", "maxwell", has_login_node, 0),
            Step("flag", 0) >>

\* the keys of group_cbf_by_position's result
Positions(f) == {x.pos : x \in {y \in files[f] : y.ext = "cbf" /\ y.pos > 0}}

RECURSIVE wedges_steps(_)
wedges_steps(ps) ==
    IF ps = {} THEN <<>>
    ELSE LET p == Min(ps)
         IN  << Step("fill", p),
                Job("XDS", reserved_nodes, has_login_node, p),
                Step("flag", p) >> \o wedges_steps(ps \ {p})

\* as wedges_plan, with the loop left after its first round
wedges_plan_first_only(f) ==
    IF Positions(f) = {} THEN <<>> ELSE wedges_steps({Min(Positions(f))})

\* the loop of wedges_processing, one round per position
wedges_plan(f) == wedges_steps(Positions(f))

\* range(0, NFRAMES, chunk_size), as iteration numbers
Chunks(n) == IF n <= 0 THEN 0 ELSE (n + chunk_size - 1) \div chunk_size

\* serial_processing: the template, one round per chunk, then the flag
serial_plan(f) ==
    <<Step("fill", 0)>>
        \o [i \in 1..Chunks(NFRAMES(f)) |-> Step("chunk", i - 1)]
        \o <<Step("flag", 0)>>

\* ------------------------------------------------- mirrored output dirs
\* entries are the names directly inside the directory; posflag holds the
\* positions whose own subdirectory has a flag.txt
PosDir == <<"000001", "000002">>

NoDir == [exists |-> FALSE, entries |-> {}, posflag |-> {}]

HasFlag(f) == "flag.txt" \in proc[f].entries

\* ------------------------------------------------------ dispatch locals
NoDispatch ==
    [pipeline |-> "none", pending |-> 0, flagAtForce |-> FALSE,
     listed |-> {}, undeleted |-> {}, flagSeen |-> FALSE, skipped |-> FALSE,
     nsub |-> 0, jobs |-> <<>>, fills |-> <<>>]

Infos ==
    {[exists |-> FALSE, lines |-> <<>>]}
        \cup {[exists |-> TRUE, lines |-> l] : l \in Descriptors}

\* ------------------------------------------- functions checked on their own
\* no --blocks file
NoWorklist == [blocks |-> <<>>, read |-> FALSE, to_process |-> <<>>, k |-> 1]

NoRendering ==
    [renderer |-> "none", text |-> <<>>, out |-> {}, raised |-> None,
     renders |-> 0]

NoGrouping == [listing |-> {}, called |-> FALSE, results |-> {}]

NoReturn == [raised |-> None, value |-> 0]

NoExtraction ==
    [called |-> FALSE,
     file |-> [exists |-> FALSE, readable |-> FALSE, lines |-> <<>>],
     key |-> "none", fallback |-> {}, is_float |-> TRUE, is_string |-> FALSE,
     returned |-> NoReturn]

NoMetadata ==
    [pc |-> "idle", base_exists |-> FALSE, json_files |-> <<>>, i |-> 1,
     result |-> 0, raised |-> None]

\* online mode is not in use
NoOnline == [pc |-> "idle", path |-> None, calls |-> 0, logged |-> FALSE]

\* no second instance
NoPeer == [pc |-> "idle", root |-> None, flagSeen |-> FALSE, nsub |-> 0]

NoStartup == [pc |-> "idle", raw_exists |-> FALSE, polls |-> 0]

NoWaiting ==
    [pc |-> "idle", kind |-> "none", timeout |-> 0, elapsed |-> 0,
     tries |-> 0, available |-> FALSE]

\* no serial dispatch looked at
NoChunks ==
    [pc |-> "idle", NFRAMES |-> 0, iteration |-> 0, start_index |-> 0,
     ranges |-> <<>>, disk |-> {}, queue |-> <<>>, sent |-> <<>>]

NoMirror ==
    [calls |-> 0, raw_dir |-> <<>>, proc_dir |-> <<>>, dirs |-> <<>>,
     roots |-> <<>>, out |-> <<>>, changed |-> FALSE]

LaterOff ==
    /\ online = NoOnline
    /\ peer = NoPeer
    /\ startup = NoStartup
    /\ waiting = NoWaiting
    /\ mirror = NoMirror
    /\ chunks = NoChunks

EarlierOff ==
    /\ worklist = NoWorklist
    /\ rendering = NoRendering
    /\ grouping = NoGrouping
    /\ extraction = NoExtraction
    /\ metadata = NoMetadata

Init ==
    /\ LaterOff
    /\ worklist = NoWorklist
    /\ rendering = NoRendering
    /\ grouping = NoGrouping
    /\ extraction = NoExtraction
    /\ metadata = NoMetadata
    /\ is_force \in BOOLEAN
    /\ is_maxwell \in BOOLEAN
    /\ configuration \in [reserved_nodes : NodeLists]
    /\ info \in [FolderSet -> Infos]
    /\ files \in [FolderSet -> FileSets]
    /\ proc = [f \in FolderSet |-> NoDir]
    /\ pc = "walk"
    /\ pass = 1
    /\ todo = Folders
    /\ root = None
    /\ d = NoDispatch
    /\ plan = <<>>
    /\ squeue = NoQuery
    /\ script = NoScript
    /\ submitted = [f \in FolderSet |-> {}]
    /\ error = None

\* an exception nobody catches ends the process
Raise(e) ==
    /\ pc' = "exit"
    /\ error' = e

\* run(f) up to the pending-jobs query: the early return, the parse of
\* info.txt, makedirs
RunCall(f) ==
    /\ LET fpp == FramesPerPosition(info[f].lines)
       IN  /\ root' = f
           /\ plan' = <<>>
           /\ UNCHANGED <<args, info, files, pass, squeue, script, submitted>>
           /\ IF ~Eligible(f)
              THEN /\ d' = NoDispatch
                   /\ UNCHANGED <<proc, pc, error>>
              ELSE IF fpp.raised
              THEN /\ d' = NoDispatch
                   /\ Raise("ValueError")
                   /\ UNCHANGED proc
              ELSE /\ proc' = [proc EXCEPT ![f].exists = TRUE]
                   /\ \E q \in PendingOutcomes :
                        IF q.kind = "OSError"
                        THEN /\ d' = NoDispatch
                             /\ Raise("OSError")
                        ELSE /\ d' = [NoDispatch EXCEPT
                                        !.pending = IF q.kind = "ok" THEN q.lines ELSE 0]
                             /\ pc' = "force"
                             /\ UNCHANGED error

\* main()'s for loop of the full sweep takes the next folder and calls run()
RunBegin ==
    /\ pc = "walk"
    /\ todo # <<>>
    /\ todo' = Tail(todo)
    /\ UNCHANGED aside
    /\ RunCall(Head(todo))

\* as RunForce, with the clean-up loop left out
RunForceNoClear ==
    /\ pc = "force"
    /\ pc' = "classify"
    /\ UNCHANGED <<args, aside, info, files, pass, todo, root, plan,
                   squeue, script, submitted, error, proc, d>>

\* as RunForce, with the clean-up done whenever --force is given
RunForceAlways ==
    /\ pc = "force"
    /\ pc' = "classify"
    /\ UNCHANGED <<args, aside, info, files, pass, todo, root, plan,
                   squeue, script, submitted, error>>
    /\ IF is_force
       THEN \E failed \in SUBSET proc[root].entries :
              /\ Cardinality(failed) <= MaxDeleteFailures
              /\ proc' = [proc EXCEPT
                    ![root].entries = failed,
                    ![root].posflag = {p \in @ : PosDir[p] \in failed}]
              /\ d' = [d EXCEPT !.flagAtForce = TRUE,
                                !.listed = proc[root].entries,
                                !.undeleted = failed]
       ELSE UNCHANGED <<proc, d>>

\* as RunForce, with no try/except around the deletion: the first failure
\* ends the loop and the dispatch
RunForceAbort ==
    /\ pc = "force"
    /\ UNCHANGED <<args, aside, info, files, pass, todo, root, plan,
                   squeue, script, submitted>>
    /\ IF is_force /\ HasFlag(root)
       THEN \E failed \in SUBSET proc[root].entries :
              /\ Cardinality(failed) <= MaxDeleteFailures
              /\ d' = [d EXCEPT !.flagAtForce = TRUE,
                                !.listed = proc[root].entries,
                                !.undeleted = failed]
              /\ IF failed = {}
                 THEN /\ proc' = [proc EXCEPT ![root].entries = {},
                                              ![root].posflag = {}]
                      /\ pc' = "classify"
                      /\ UNCHANGED error
                 ELSE /\ UNCHANGED proc
                      /\ Raise("OSError")
       ELSE /\ pc' = "classify"
            /\ UNCHANGED <<proc, d, error>>

\* the forced re-processing block of run(): every entry of the output
\* directory is unlinked or rmtree'd; a deletion that raises is logged and
\* the entry stays
RunForce ==
    /\ pc = "force"
    /\ pc' = "classify"
    /\ UNCHANGED <<args, aside, info, files, pass, todo, root, plan,
                   squeue, script, submitted, error>>
    /\ IF is_force /\ HasFlag(root)
       THEN \E failed \in SUBSET proc[root].entries :
              /\ Cardinality(failed) <= MaxDeleteFailures
              /\ proc' = [proc EXCEPT
                    ![root].entries = failed,
                    ![root].posflag = {p \in @ : PosDir[p] \in failed}]
              /\ d' = [d EXCEPT !.flagAtForce = TRUE,
                                !.listed = proc[root].entries,
                                !.undeleted = failed]
       ELSE UNCHANGED <<proc, d>>

\* what the called pipeline does before its first step: the directories
\* it makes, and the steps it will run
Prelude(pipeline, f) ==
    CASE pipeline = "rotational" ->
            [made |-> {"xds", "autoPROC"}, plan |-> rotational_plan(f)]
      [] pipeline = "wedge" ->
            [made |-> {}, plan |-> wedges_plan(f)]
      [] OTHER ->
            [made |-> {}, plan |-> serial_plan(f)]

\* the rest of run(): the skip message, then the if/elif/else that calls
\* one pipeline
RunDispatch ==
    /\ pc = "classify"
    /\ LET lines == info[root].lines
           pipeline == Classify(Method(lines), FramesPerPosition(lines).value)
           skip == \/ HasFlag(root)
                   \/ d.pending > MAX_PENDING_JOBS
                   \/ "CORRECT.LP" \in proc[root].entries
                   \/ "XYCORR.LP" \in proc[root].entries
           pre == Prelude(pipeline, root)
       IN  /\ d' = [d EXCEPT !.flagSeen = HasFlag(root), !.skipped = skip,
                             !.pipeline = pipeline]
           /\ proc' = [proc EXCEPT ![root].entries = @ \cup pre.made]
           /\ plan' = pre.plan
    /\ pc' = "pipeline"
    /\ UNCHANGED <<args, aside, info, files, pass, todo, root,
                   squeue, script, submitted, error>>

\* -------------------------------------------------------- pipeline steps
Running(op) == pc = "pipeline" /\ plan # <<>> /\ Head(plan).op = op

\* what copying and rendering a template can do: succeed, find no template
\* file, or meet a placeholder the mapping lacks (Template.substitute)
TemplateOutcomes == {"ok", "FileNotFoundError", "KeyError"}

\* filling_template_rotational / _wedges / _serial.  The wedge variant is
\* preceded by the makedirs of the position's folder and waits for the
\* position's first frame to be readable (TimeoutError); the serial one
\* divides by the wavelength and, when it fails after the copy, leaves
\* template.geom behind.  Files written inside xds/ are not tracked.
\* d.fills lists the calls: the position, and for the rotational pipeline
\* the frame-name template that is passed.
FillTemplate ==
    /\ Running("fill")
    /\ UNCHANGED <<args, aside, info, files, pass, todo, root,
                   squeue, script, submitted>>
    /\ d' = [d EXCEPT !.fills = Append(@,
                [at |-> Head(plan).at,
                 name |-> IF d.pipeline = "rotational"
                          THEN NAME_TEMPLATE_OF_DATA_FRAMES(root).parts
                          ELSE <<>>])]
    /\ LET p == Head(plan).at
           made == CASE d.pipeline = "wedge"  -> {PosDir[p]}
                     [] d.pipeline = "serial" -> {"geometry.geom"}
                     [] OTHER                 -> {}
           outcomes ==
               CASE d.pipeline = "wedge" -> TemplateOutcomes \cup {"TimeoutError"}
                 [] d.pipeline = "serial" /\ WAVELENGTH(root) = 0 ->
                        {"FileNotFoundError", "ZeroDivisionError"}
                 [] OTHER -> TemplateOutcomes
       IN  \E t \in outcomes :
             IF t = "ok"
             THEN /\ proc' = [proc EXCEPT ![root].entries = @ \cup made]
                  /\ plan' = Tail(plan)
                  /\ UNCHANGED <<pc, error>>
             ELSE /\ proc' = [proc EXCEPT ![root].entries = @ \cup
                         CASE d.pipeline = "wedge" -> made
                           [] d.pipeline = "serial" /\ t # "FileNotFoundError" ->
                                  {"template.geom"}
                           [] OTHER -> {}]
                  /\ Raise(t)
                  /\ UNCHANGED plan

PieceName == <<"events.lst000", "events.lst001">>

\* number of files `split -l split_lines` writes for n lines
Pieces(n) == (n + split_lines - 1) \div split_lines

\* serial_data_processing up to its submit loop, for one chunk: the files
\* whose trailing number lies in the chunk's range are listed, the list is
\* split, and a job is planned for every events-*.lst* file in the folder.
\* list_events is taken to give one event per .h5 file; the list files and
\* job scripts written beside the pieces are not tracked as entries.
SerialChunk ==
    /\ Running("chunk")
    /\ UNCHANGED <<args, aside, info, files, pass, todo, root, d,
                   squeue, script, submitted>>
    /\ LET start == Head(plan).at * chunk_size
           end   == IF start + chunk_size < NFRAMES(root)
                    THEN start + chunk_size ELSE NFRAMES(root)
           found == {x \in files[root] : x.ext \in {"cbf", "h5"}}
           inrange(x) == \E i \in x.idx : start <= i /\ i < end
           cbf   == {x \in found : x.ext = "cbf" /\ inrange(x)}
           h5    == {x \in found : x.ext = "h5" /\ inrange(x)}
           lines == IF cbf # {} THEN Cardinality(cbf) ELSE Cardinality(h5)
           fresh == {PieceName[k] : k \in 1..Pieces(lines)}
           dirs  == {"streams", "error", "j_stream"}
           ondisk == {k \in 1..Len(PieceName) :
                        PieceName[k] \in proc[root].entries \cup fresh}
           jobs  == [k \in 1..Cardinality(ondisk) |->
                        Job("indexamajig", reserved_nodes, has_login_node, k)]
       IN  IF \E x \in found : x.idx = {}
           THEN /\ proc' = [proc EXCEPT ![root].entries = @ \cup dirs]
                /\ Raise("ValueError")
                /\ UNCHANGED plan
           ELSE IF cbf = {} /\ h5 = {}
           THEN /\ proc' = [proc EXCEPT ![root].entries = @ \cup dirs]
                /\ Raise("SystemExit")
                /\ UNCHANGED plan
           ELSE /\ proc' = [proc EXCEPT ![root].entries = @ \cup dirs \cup fresh]
                /\ plan' = jobs \o Tail(plan)
                /\ UNCHANGED <<pc, error>>

NeedsQuery(job) == job.nodes # "maxwell"

\* the capacity query made while the job script is built
CapacityQuery ==
    /\ Running("job")
    /\ NeedsQuery(Head(plan))
    /\ ~squeue.asked
    /\ UNCHANGED <<args, aside, info, files, proc, pass, todo, root,
                   d, plan, script, submitted>>
    /\ \E answer \in QueryOutcomes :
         LET r == are_the_reserved_nodes_overloaded(answer)
         IN  /\ squeue' = [asked |-> TRUE, answer |-> answer,
                           overloaded |-> r.value /\ ~r.raised]
             /\ IF r.raised THEN Raise("OSError")
                            ELSE UNCHANGED <<pc, error>>

\* as QueryAfterSubmit, with the answer kept for the jobs that follow
QueryKept == squeue

\* the guard's answer is a local of the code that builds one script: it is
\* gone when the script has been submitted
QueryAfterSubmit == NoQuery

\* the script is written and sbatch is called; a non-zero exit raises
\* CalledProcessError (subprocess.run with check=True)
Submit ==
    /\ Running("job")
    /\ NeedsQuery(Head(plan)) => squeue.asked
    /\ script' = BuildScript(d.pipeline, Head(plan), squeue.overloaded)
    /\ squeue' = QueryAfterSubmit
    /\ UNCHANGED <<args, aside, info, files, proc, pass, todo, root>>
    /\ \E status \in {0, 1} :
         IF status = 0
         THEN /\ submitted' = [submitted EXCEPT ![root] = @ \cup {pass}]
              /\ d' = [d EXCEPT
                          !.nsub = @ + 1,
                          !.jobs = Append(@, [kind |-> Head(plan).kind,
                                              at |-> Head(plan).at])]
              /\ plan' = Tail(plan)
              /\ UNCHANGED <<pc, error>>
         ELSE /\ Raise("CalledProcessError")
              /\ UNCHANGED <<submitted, d, plan>>

\* where each pipeline touches flag.txt: the rotational and the serial one
\* in the output directory, the wedge one in the position's subdirectory
FlagPlace(pipeline, at) == IF pipeline = "wedge" THEN at ELSE 0

TouchFlag ==
    /\ Running("flag")
    /\ LET where == FlagPlace(d.pipeline, Head(plan).at)
       IN  proc' = IF where = 0
                   THEN [proc EXCEPT ![root].entries = @ \cup {"flag.txt"}]
                   ELSE [proc EXCEPT ![root].posflag = @ \cup {where}]
    /\ plan' = Tail(plan)
    /\ UNCHANGED <<args, aside, info, files, pc, pass, todo, root, d,
                   squeue, script, submitted, error>>

\* the pipeline and run() return to main()'s for loop
RunReturn ==
    /\ pc = "pipeline"
    /\ plan = <<>>
    /\ pc' = "walk"
    /\ UNCHANGED <<args, aside, info, files, proc, pass, todo, root,
                   d, plan, squeue, script, submitted, error>>

\* the walk is over: time.sleep(2), then the next sweep
Sleep ==
    /\ pc = "walk"
    /\ todo = <<>>
    /\ pass < MaxPasses
    /\ pass' = pass + 1
    /\ todo' = Folders
    /\ UNCHANGED <<args, aside, info, files, proc, pc, root, d, plan,
                   squeue, script, submitted, error>>

Next ==
    \/ RunBegin
    \/ RunForce
    \/ RunDispatch
    \/ FillTemplate
    \/ SerialChunk
    \/ CapacityQuery
    \/ Submit
    \/ TouchFlag
    \/ RunReturn
    \/ Sleep

Spec == Init /\ [][Next]_vars

\* --------------------------------------------- rotational folders only
\* The same engine on a raw tree of rotational folders, with more kinds of
\* frame files than the general tree has.
RotationalFileSets ==
    { {Master, Data1}, {Master, Cbf11}, {MasterA, Cbf11}, {Cbf11, Cbf12},
      {Data1, Notes} }

RotationalInfos ==
    {[exists |-> TRUE, lines |-> l] : l \in {<<Lrot, Lwave>>, <<LrotBare, Lfpp5>>}}

InitRotational ==
    /\ LaterOff
    /\ worklist = NoWorklist
    /\ rendering = NoRendering
    /\ grouping = NoGrouping
    /\ extraction = NoExtraction
    /\ metadata = NoMetadata
    /\ is_force \in BOOLEAN
    /\ is_maxwell \in BOOLEAN
    /\ configuration \in [reserved_nodes : NodeLists]
    /\ info \in [FolderSet -> RotationalInfos]
    /\ files \in [FolderSet -> RotationalFileSets]
    /\ proc = [f \in FolderSet |-> NoDir]
    /\ pc = "walk"
    /\ pass = 1
    /\ todo = Folders
    /\ root = None
    /\ d = NoDispatch
    /\ plan = <<>>
    /\ squeue = NoQuery
    /\ script = NoScript
    /\ submitted = [f \in FolderSet |-> {}]
    /\ error = None

NextRotational ==
    \/ RunBegin
    \/ RunForce
    \/ RunDispatch
    \/ FillTemplate
    \/ CapacityQuery
    \/ Submit
    \/ TouchFlag
    \/ RunReturn
    \/ Sleep

SpecRotational == InitRotational /\ [][NextRotational]_vars

\* ------------------------------------------- the full sweep without end
\* main()'s while True with the experiment writing data beside it.  The
\* sweeps are not counted beyond MaxPasses, so that the loop can go on for
\* ever in a finite state space.
SweepInfos ==
    { [exists |-> FALSE, lines |-> <<>>],
      [exists |-> TRUE, lines |-> <<Lrot, Lwave>>],
      [exists |-> TRUE, lines |-> <<Lgrid, LFpp5, Lwave>>] }

SweepFileSets == { {}, {Master, Data1}, {Cbf11, Cbf12, Cbf21} }

\* the experiment writes info.txt or frame files into a folder that run()
\* is not working on: what is there stays, something is added
Acquire ==
    /\ \E f \in FolderSet, i \in SweepInfos, fs \in SweepFileSets :
         /\ pc = "walk" \/ root # f
         /\ info[f].exists => i = info[f]
         /\ files[f] \subseteq fs
         /\ <<i, fs>> # <<info[f], files[f]>>
         /\ info' = [info EXCEPT ![f] = i]
         /\ files' = [files EXCEPT ![f] = fs]
    /\ UNCHANGED <<args, aside, proc, pc, pass, todo, root, d, plan,
                   squeue, script, submitted, error>>

\* as SweepAgain, without the while True around the walk
SweepOnce ==
    /\ pc = "walk"
    /\ todo = <<>>
    /\ pass < MaxPasses
    /\ pass' = pass + 1
    /\ UNCHANGED <<args, aside, info, files, proc, pc, todo, root, d, plan,
                   squeue, script, submitted, error>>

\* the walk is over: time.sleep(2), then os.walk again
SweepAgain ==
    /\ pc = "walk"
    /\ todo = <<>>
    /\ pass' = IF pass < MaxPasses THEN pass + 1 ELSE pass
    /\ todo' = Folders
    /\ UNCHANGED <<args, aside, info, files, proc, pc, root, d, plan,
                   squeue, script, submitted, error>>

InitSweep ==
    /\ LaterOff
    /\ worklist = NoWorklist
    /\ rendering = NoRendering
    /\ grouping = NoGrouping
    /\ extraction = NoExtraction
    /\ metadata = NoMetadata
    /\ is_force \in BOOLEAN
    /\ is_maxwell = TRUE
    /\ configuration = [reserved_nodes |-> ""]
    /\ info \in [FolderSet -> SweepInfos]
    /\ files \in [FolderSet -> SweepFileSets]
    /\ proc = [f \in FolderSet |-> NoDir]
    /\ pc = "walk"
    /\ pass = 1
    /\ todo = Folders
    /\ root = None
    /\ d = NoDispatch
    /\ plan = <<>>
    /\ squeue = NoQuery
    /\ script = NoScript
    /\ submitted = [f \in FolderSet |-> {}]
    /\ error = None

\* the steps of the one thread of the program
SweepProgram ==
    \/ RunBegin
    \/ RunForce
    \/ RunDispatch
    \/ FillTemplate
    \/ Submit
    \/ TouchFlag
    \/ RunReturn
    \/ SweepAgain

NextSweep == SweepProgram \/ Acquire

\* the program takes its next step whenever it has one; the experiment
\* owes nothing
SpecSweep == InitSweep /\ [][NextSweep]_vars /\ WF_vars(SweepProgram)

\* ============================================ functions on their own
\* the engine at rest, while one function is exercised on its own inputs
EngineOff ==
    /\ is_force = FALSE
    /\ is_maxwell = FALSE
    /\ configuration = [reserved_nodes |-> ""]
    /\ info = [f \in FolderSet |-> [exists |-> FALSE, lines |-> <<>>]]
    /\ files = [f \in FolderSet |-> {}]
    /\ proc = [f \in FolderSet |-> NoDir]
    /\ pc = "walk"
    /\ pass = 1
    /\ todo = <<>>
    /\ root = None
    /\ d = NoDispatch
    /\ plan = <<>>
    /\ squeue = NoQuery
    /\ script = NoScript
    /\ submitted = [f \in FolderSet |-> {}]
    /\ error = None

\* ------------------------------------------------------ template rendering
\* tokens of a template text that are explored
MaxTokens == 3
\* renderings of one template that are explored
MaxRenders == 2

\* A template text, as the pattern of string.Template cuts it: plain text,
\* the escape $$, a placeholder $name or ${name}, or a $ that starts none of
\* these.
Tok(kind, name) == [kind |-> kind, name |-> name]

Tokens ==
    { Tok("text", " JOB= XYCORR INIT"),
      Tok("escaped", "$$"),
      Tok("invalid", "$ "),
      Tok("named", "ORGX"),
      Tok("braced", "ORGX"),
      Tok("named", "data_h5path"),
      Tok("named", "XDS_INP_template"),
      Tok("named", "FRIEDEL" ) }

Texts == UNION {[1..n -> Tokens] : n \in 0..MaxTokens}

Renderers == {"rotational", "wedges", "serial", "configuration"}

\* the keys of template_data (values, for the configuration file)
template_data(renderer) ==
    CASE renderer = "rotational" ->
            {"DETECTOR_DISTANCE", "ORGX", "ORGY", "NFRAMES",
             "NAME_TEMPLATE_OF_DATA_FRAMES", "STARTING_ANGLE",
             "OSCILLATION_RANGE", "WAVELENGTH", "SPACE_GROUP_NUMBER",
             "UNIT_CELL_CONSTANTS"}
      [] renderer = "wedges" ->
            {"DETECTOR_DISTANCE", "ORGX", "ORGY",
             "NAME_TEMPLATE_OF_DATA_FRAMES", "OSCILLATION_RANGE",
             "WAVELENGTH", "first_image_index", "last_image_index",
             "REFERENCE_DATA_SET", "SPACE_GROUP_NUMBER",
             "UNIT_CELL_CONSTANTS", "INCLUDE_RESOLUTION_RANGE",
             "ROTATION_AXIS"}
      [] renderer = "serial" ->
            {"DETECTOR_DISTANCE", "ORGX", "ORGY", "PHOTON_ENERGY",
             "data_h5path"}
      [] OTHER ->
            {"XDS_INP_template", "XDS_INP_wedges_template",
             "geometry_for_processing"}

IsPlaceholder(tok) == tok.kind \in {"named", "braced"}

\* what one token becomes when it can be converted: the mapping's value for
\* a placeholder, a single $ for the escape
Convert(tok) ==
    CASE IsPlaceholder(tok)   -> Tok("value", tok.name)
      [] tok.kind = "escaped" -> Tok("text", "$")
      [] OTHER                -> tok

\* Template.substitute: KeyError at the first placeholder the mapping lacks,
\* ValueError at the first $ that starts no placeholder
substitute(text, keys) ==
    LET bad == {i \in 1..Len(text) :
                   \/ text[i].kind = "invalid"
                   \/ IsPlaceholder(text[i]) /\ text[i].name \notin keys}
    IN  IF bad = {}
        THEN [raised |-> None, value |-> [i \in 1..Len(text) |-> Convert(text[i])]]
        ELSE [raised |-> IF text[Min(bad)].kind = "invalid"
                         THEN "ValueError" ELSE "KeyError",
              value |-> <<>>]

\* Template.safe_substitute: what cannot be converted stays as it is
safe_substitute(text, keys) ==
    [raised |-> None,
     value |-> [i \in 1..Len(text) |->
                   IF \/ text[i].kind = "invalid"
                      \/ IsPlaceholder(text[i]) /\ text[i].name \notin keys
                   THEN text[i] ELSE Convert(text[i])]]

\* as open_w_write, with the file opened for appending
open_a_write(old, content) ==
    IF old = {} THEN {content} ELSE {(CHOOSE c \in old : TRUE) \o content}

\* open(path, 'w') followed by f.write(content): the file holds content
open_w_write(old, content) == {content}

\* One rendering.  filling_template_rotational, _wedges and _serial open the
\* output for writing and then substitute, so that a failed rendering
\* leaves an empty file; filling_configuration_file returns the template's
\* own path when the text holds no $, and writes the safe_substitute
\* otherwise.  rendering.out is the set holding the output file's content,
\* empty while there is no such file.
Render ==
    /\ rendering.renderer # "none"
    /\ rendering.renders < MaxRenders
    /\ UNCHANGED <<engine, worklist, grouping, extraction, metadata, later>>
    /\ LET text == rendering.text
           keys == template_data(rendering.renderer)
           plain == \A i \in 1..Len(text) : text[i].kind = "text"
           r == IF rendering.renderer = "configuration"
                THEN safe_substitute(text, keys)
                ELSE substitute(text, keys)
       IN  rendering' =
              [rendering EXCEPT
                 !.renders = @ + 1,
                 !.raised = r.raised,
                 !.out = IF rendering.renderer = "configuration" /\ plain
                         THEN @
                         ELSE open_w_write(@, r.value)]

InitTemplates ==
    /\ LaterOff
    /\ EngineOff
    /\ worklist = NoWorklist
    /\ grouping = NoGrouping
    /\ extraction = NoExtraction
    /\ metadata = NoMetadata
    /\ rendering \in
          {[renderer |-> r, text |-> t, out |-> {}, raised |-> None,
            renders |-> 0] : r \in Renderers, t \in Texts}

NextTemplates == Render

SpecTemplates == InitTemplates /\ [][NextTemplates]_vars

\* ------------------------------------------------- group_cbf_by_position
\* A file name is its stem cut at every "_" and the text after its last
\* ".", each written character by character.
CbfName(parts, ext) == [parts |-> parts, ext |-> ext]

Stem_s == <<"s">>
Stem_t == <<"t">>
D000000 == <<"0", "0", "0", "0", "0", "0">>
D000001 == <<"0", "0", "0", "0", "0", "1">>
D000002 == <<"0", "0", "0", "0", "0", "2">>
D00001 == <<"0", "0", "0", "0", "1">>
D00005 == <<"0", "0", "0", "0", "5">>
D00007 == <<"0", "0", "0", "0", "7">>
D00010 == <<"0", "0", "0", "1", "0">>

s_000001_00001_cbf == CbfName(<<Stem_s, D000001, D00001>>, "cbf")
s_000001_00010_cbf == CbfName(<<Stem_s, D000001, D00010>>, "cbf")
s_000002_00001_cbf == CbfName(<<Stem_s, D000002, D00001>>, "cbf")
t_000001_00005_cbf == CbfName(<<Stem_t, D000001, D00005>>, "cbf")
s_000000_00007_cbf == CbfName(<<Stem_s, D000000, D00007>>, "cbf")
s_00001_00001_cbf  == CbfName(<<Stem_s, D00001, D00001>>, "cbf")
s_000001_00005_h5  == CbfName(<<Stem_s, D000001, D00005>>, "h5")
notes_cbf          == CbfName(<<<<"n", "o", "t", "e", "s">>>>, "cbf")

\* the names a folder's listing is drawn from
CbfPool ==
    { s_000001_00001_cbf, s_000001_00010_cbf, s_000002_00001_cbf,
      t_000001_00005_cbf, s_000000_00007_cbf, s_00001_00001_cbf,
      s_000001_00005_h5, notes_cbf }

DigitValue ==
    "0" :> 0 @@ "1" :> 1 @@ "2" :> 2 @@ "3" :> 3 @@ "4" :> 4 @@
    "5" :> 5 @@ "6" :> 6 @@ "7" :> 7 @@ "8" :> 8 @@ "9" :> 9

DigitChar == <<"0", "1", "2", "3", "4", "5", "6", "7", "8", "9">>

\* \d{n}
IsDigits(part, n) ==
    Len(part) = n /\ \A i \in 1..Len(part) : part[i] \in DOMAIN DigitValue

\* int() of a string of digits
RECURSIVE ToInt(_)
ToInt(part) ==
    IF part = <<>> THEN 0
    ELSE ToInt(SubSeq(part, 1, Len(part) - 1)) * 10 + DigitValue[Last(part)]

Pow10(k) == IF k = 0 THEN 1 ELSE IF k = 1 THEN 10 ELSE IF k = 2 THEN 100
            ELSE IF k = 3 THEN 1000 ELSE IF k = 4 THEN 10000 ELSE 100000

\* f"{position:06d}"
Format06(n) == [i \in 1..6 |-> DigitChar[((n \div Pow10(6 - i)) % 10) + 1]]

Max(S) == CHOOSE x \in S : \A y \in S : x >= y

\* as MatchesCbf, with \d+ for \d{6}
MatchesCbfAnyWidth(name) ==
    LET n == Len(name.parts)
    IN  /\ name.ext = "cbf"
        /\ n >= 3
        /\ \E w \in 1..6 : IsDigits(name.parts[n - 1], w)
        /\ IsDigits(name.parts[n], 5)

\* filename.endswith(".cbf") and the search for ^(.*)_(\d{6})_(\d{5})\.cbf$
MatchesCbf(name) ==
    LET n == Len(name.parts)
    IN  /\ name.ext = "cbf"
        /\ n >= 3
        /\ IsDigits(name.parts[n - 1], 6)
        /\ IsDigits(name.parts[n], 5)

\* match.groups(): the prefix, position_str and frame_str of a matching name
position_str(name) == name.parts[Len(name.parts) - 1]
frame_str(name) == name.parts[Len(name.parts)]
prefix(name) == SubSeq(name.parts, 1, Len(name.parts) - 2)

\* group_cbf_by_position for a listing; first gives, for every position,
\* the matching name os.listdir yielded first, whose prefix makes the
\* position's template
group_cbf_by_position(listing, first) ==
    LET matched == {name \in listing : MatchesCbf(name)}
        position_frames ==
            [p \in {ToInt(position_str(name)) : name \in matched} |->
                {ToInt(frame_str(name)) :
                    name \in {m \in matched : ToInt(position_str(m)) = p}}]
    IN  { [position |-> Format06(p),
           start |-> Min(position_frames[p]),
           end |-> Max(position_frames[p]),
           template |-> [prefix |-> prefix(first[p]),
                         position_str |-> position_str(first[p])]]
          : p \in DOMAIN position_frames }

\* the orders in which os.listdir can yield the names, as far as they
\* matter: which matching name of a position comes first
FirstListed(listing) ==
    LET matched == {name \in listing : MatchesCbf(name)}
        positions == {ToInt(position_str(name)) : name \in matched}
    IN  {first \in [positions -> matched] :
            \A p \in positions : ToInt(position_str(first[p])) = p}

GroupCall ==
    /\ ~grouping.called
    /\ \E first \in FirstListed(grouping.listing) :
          grouping' = [grouping EXCEPT
                          !.called = TRUE,
                          !.results =
                              group_cbf_by_position(grouping.listing, first)]
    /\ UNCHANGED <<engine, worklist, rendering, extraction, metadata, later>>

InitGrouping ==
    /\ LaterOff
    /\ EngineOff
    /\ worklist = NoWorklist
    /\ rendering = NoRendering
    /\ extraction = NoExtraction
    /\ metadata = NoMetadata
    /\ grouping \in {[listing |-> l, called |-> FALSE, results |-> {}] :
                        l \in SUBSET CbfPool}

NextGrouping == GroupCall

SpecGrouping == InitGrouping /\ [][NextGrouping]_vars

\* ---------------------------------- extract_value_from_info on its own
Ldist150   == <<"distance", " 1.5e2">>
LdistNeg   == <<"distance", " -2.7">>
LdistBare  == <<"distance">>
LframesInf == <<"frames", " 1e400">>
LframesBad == <<"frames", " abc">>
LframesSet == <<"frames set 2", " 100">>
Lindex     == <<"indexing_method", " xgandalf">>
LindexCell == <<"indexing_method", " file", "a.cell ">>

\* the files the function is called on: absent, unreadable, empty, and
\* six readable contents
ExtractFiles ==
    { [exists |-> FALSE, readable |-> FALSE, lines |-> <<>>],
      [exists |-> TRUE, readable |-> FALSE, lines |-> <<>>] }
    \cup
    { [exists |-> TRUE, readable |-> TRUE, lines |-> l] :
        l \in { <<>>,
                <<Lserial, Lframes100, Lwave>>,
                <<Lgrid, Lfpp5, Lframes100>>,
                <<LindexCell, Ldist150>>,
                <<LdistNeg, LframesInf>>,
                <<LframesBad, LframesSet, Lindex>>,
                <<LdistBare>> } }

ExtractKeys == {"frames", "wavelength", "indexing_method", "distance"}

ExtractCall ==
    /\ extraction.key # "none"
    /\ ~extraction.called
    /\ extraction' =
          [extraction EXCEPT
             !.called = TRUE,
             !.returned = extract_value_from_info(
                              extraction.file, extraction.key,
                              extraction.fallback, extraction.is_float,
                              extraction.is_string)]
    /\ UNCHANGED <<engine, worklist, rendering, grouping, metadata, later>>

InitExtraction ==
    /\ LaterOff
    /\ EngineOff
    /\ worklist = NoWorklist
    /\ rendering = NoRendering
    /\ grouping = NoGrouping
    /\ metadata = NoMetadata
    /\ extraction \in
          {[called |-> FALSE, file |-> f, key |-> k, fallback |-> fb,
            is_float |-> fl, is_string |-> st, returned |-> NoReturn] :
              f \in ExtractFiles, k \in ExtractKeys, fb \in {{}, {7}},
              fl \in BOOLEAN, st \in BOOLEAN}

NextExtraction == ExtractCall

SpecExtraction == InitExtraction /\ [][NextExtraction]_vars

\* --------------------------------- find_and_parse_metadata on its own
MaxCandidates == 3

\* a beamtime-metadata*.json file: what open() does with it, whether
\* json.load parses it, and which of the keys the function reads it has
MetadataKeys == {"beamtimeId", "onlineAnalysis", "corePath"}

Candidates ==
    { [opens |-> "missing", parses |-> FALSE, keys |-> {}],
      [opens |-> "denied", parses |-> FALSE, keys |-> {}],
      [opens |-> "ok", parses |-> FALSE, keys |-> {}] }
    \cup
    { [opens |-> "ok", parses |-> TRUE, keys |-> ks] :
        ks \in SUBSET MetadataKeys }

\* the glob result, in the order glob gives it
CandidateLists ==
    UNION { [1..n -> Candidates] : n \in 0..MaxCandidates }

\* the os.path.exists(base_path) check and the glob
MetadataStart ==
    /\ metadata.pc = "start"
    /\ metadata' =
          IF metadata.base_exists
          THEN [metadata EXCEPT !.pc = "scan"]
          ELSE [metadata EXCEPT !.pc = "done",
                                !.raised = "FileNotFoundError"]
    /\ UNCHANGED <<engine, worklist, rendering, grouping, extraction, later>>

\* one turn of the loop over json_files
MetadataCandidate ==
    /\ metadata.pc = "scan"
    /\ metadata.i <= Len(metadata.json_files)
    /\ LET c == metadata.json_files[metadata.i]
           skip == [metadata EXCEPT !.i = @ + 1]
           raise(e) == [metadata EXCEPT !.pc = "done", !.raised = e]
       IN  metadata' =
             IF c.opens = "missing" THEN skip
             ELSE IF c.opens = "denied" THEN raise("PermissionError")
             ELSE IF ~c.parses THEN skip
             ELSE IF ~({"beamtimeId", "onlineAnalysis"} \subseteq c.keys)
                  THEN skip
             ELSE IF "corePath" \notin c.keys THEN raise("KeyError")
             ELSE [metadata EXCEPT !.pc = "done", !.result = metadata.i]
    /\ UNCHANGED <<engine, worklist, rendering, grouping, extraction, later>>

\* the raise after the loop
MetadataNoneValid ==
    /\ metadata.pc = "scan"
    /\ metadata.i > Len(metadata.json_files)
    /\ metadata' = [metadata EXCEPT !.pc = "done",
                                    !.raised = "FileNotFoundError"]
    /\ UNCHANGED <<engine, worklist, rendering, grouping, extraction, later>>

InitMetadata ==
    /\ LaterOff
    /\ EngineOff
    /\ worklist = NoWorklist
    /\ rendering = NoRendering
    /\ grouping = NoGrouping
    /\ extraction = NoExtraction
    /\ metadata \in
          {[pc |-> "start", base_exists |-> b, json_files |-> js, i |-> 1,
            result |-> 0, raised |-> None] :
              b \in BOOLEAN, js \in CandidateLists}
    /\ ~metadata.base_exists => metadata.json_files = <<>>

NextMetadata ==
    \/ MetadataStart
    \/ MetadataCandidate
    \/ MetadataNoneValid

SpecMetadata == InitMetadata /\ [][NextMetadata]_vars

\* ------------------------------------------- the walk with a --blocks file
MaxBlocks == 2

\* Paths and lines are sequences of characters here.
raw_directory == <<"/", "r">>

\* the directories os.walk(raw_directory) yields
RootPath ==
       "f1" :> <<"/", "r", "/", "a">>
    @@ "f2" :> <<"/", "r", "/", "b", "/", "a">>

FullPath(f) == RootPath[f]

\* root[len(raw_directory):]
RelPath(f) == SubSeq(RootPath[f], Len(raw_directory) + 1, Len(RootPath[f]))

Whitespace == {" ", "\t", "\n"}

RECURSIVE StripLeft(_)
StripLeft(line) ==
    IF line # <<>> /\ Head(line) \in Whitespace
    THEN StripLeft(Tail(line))
    ELSE line

RECURSIVE StripRight(_)
StripRight(line) ==
    IF line # <<>> /\ Last(line) \in Whitespace
    THEN StripRight(SubSeq(line, 1, Len(line) - 1))
    ELSE line

\* str.strip
strip(line) == StripRight(StripLeft(line))

\* pattern in text
Contains(text, pattern) ==
    \E i \in 0..(Len(text) - Len(pattern)) :
        SubSeq(text, i + 1, i + Len(pattern)) = pattern

\* the lines a --blocks file is made of
LineEmpty   == <<"\n">>
LineSpaces  == <<" ", "\n">>
Line_a      == <<"a", "\n">>
Line_a_pad  == <<" ", "a", " ", "\n">>
Line_b      == <<"b", "\n">>
Line_r      == <<"r", "\n">>
Line_ba     == <<"b", "/", "a">>

BlockLines ==
    {LineEmpty, LineSpaces, Line_a, Line_a_pad, Line_b, Line_r, Line_ba}

BlockFiles == UNION { [1..n -> BlockLines] : n \in 0..MaxBlocks }

\* the loop over the lines of the file
RECURSIVE read_blocks(_, _)
read_blocks(lines, to_process) ==
    IF lines = <<>> THEN to_process
    ELSE LET line == strip(Head(lines))
         IN  read_blocks(Tail(lines),
                 IF Len(line) > 0
                    /\ \A j \in DOMAIN to_process : to_process[j] # line
                 THEN Append(to_process, line)
                 ELSE to_process)

BlocksRead ==
    /\ pc = "walk"
    /\ ~worklist.read
    /\ worklist' = [worklist EXCEPT
                       !.read = TRUE,
                       !.to_process = read_blocks(worklist.blocks, <<>>)]
    /\ UNCHANGED <<engine, rendering, grouping, extraction, metadata, later>>

\* the inner loop meets a pattern the folder's relative path contains
BlocksRun ==
    /\ pc = "walk"
    /\ worklist.read
    /\ todo # <<>>
    /\ worklist.k <= Len(worklist.to_process)
    /\ Contains(RelPath(Head(todo)), worklist.to_process[worklist.k])
    /\ worklist' = [worklist EXCEPT !.k = @ + 1]
    /\ UNCHANGED <<todo, rendering, grouping, extraction, metadata, later>>
    /\ RunCall(Head(todo))

\* the inner loop meets a pattern the folder's relative path lacks
BlocksSkip ==
    /\ pc = "walk"
    /\ worklist.read
    /\ todo # <<>>
    /\ worklist.k <= Len(worklist.to_process)
    /\ ~Contains(RelPath(Head(todo)), worklist.to_process[worklist.k])
    /\ worklist' = [worklist EXCEPT !.k = @ + 1]
    /\ UNCHANGED <<engine, rendering, grouping, extraction, metadata, later>>

\* the inner loop is over: os.walk yields the next directory
BlocksNextRoot ==
    /\ pc = "walk"
    /\ worklist.read
    /\ todo # <<>>
    /\ worklist.k > Len(worklist.to_process)
    /\ todo' = Tail(todo)
    /\ worklist' = [worklist EXCEPT !.k = 1]
    /\ UNCHANGED <<args, info, files, proc, pc, pass, root, d, plan,
                   squeue, script, submitted, error,
                   rendering, grouping, extraction, metadata, later>>

BlocksInfos ==
    { [exists |-> FALSE, lines |-> <<>>],
      [exists |-> TRUE, lines |-> <<Lrot, Lwave>>] }

BlocksFileSets == { {Notes}, {Master, Data1} }

InitBlocks ==
    /\ LaterOff
    /\ rendering = NoRendering
    /\ grouping = NoGrouping
    /\ extraction = NoExtraction
    /\ metadata = NoMetadata
    /\ worklist \in {[blocks |-> b, read |-> FALSE, to_process |-> <<>>,
                       k |-> 1] : b \in BlockFiles}
    /\ is_force \in BOOLEAN
    /\ is_maxwell = FALSE
    /\ configuration \in [reserved_nodes : NodeLists]
    /\ info \in [FolderSet -> BlocksInfos]
    /\ files \in [FolderSet -> BlocksFileSets]
    /\ proc = [f \in FolderSet |-> NoDir]
    /\ pc = "walk"
    /\ pass = 1
    /\ todo = Folders
    /\ root = None
    /\ d = NoDispatch
    /\ plan = <<>>
    /\ squeue = NoQuery
    /\ script = NoScript
    /\ submitted = [f \in FolderSet |-> {}]
    /\ error = None

NextBlocks ==
    \/ BlocksRead
    \/ BlocksRun
    \/ BlocksSkip
    \/ BlocksNextRoot
    \/ RunForce
    \/ RunDispatch
    \/ FillTemplate
    \/ CapacityQuery
    \/ Submit
    \/ TouchFlag
    \/ RunReturn

SpecBlocks == InitBlocks /\ [][NextBlocks]_vars

\* ------------------------------------------------ main() without --offline
\* run(args.path, ...) when a path is given
OnlineRun ==
    /\ online.pc = "start"
    /\ online.path # None
    /\ pc = "walk"
    /\ online' = [online EXCEPT !.pc = "called", !.calls = @ + 1]
    /\ UNCHANGED <<todo, earlier, peer, startup, waiting, mirror, chunks>>
    /\ RunCall(online.path)

\* logger.error(...) when args.path is None
OnlineNoPath ==
    /\ online.pc = "start"
    /\ online.path = None
    /\ online' = [online EXCEPT !.pc = "done", !.logged = TRUE]
    /\ UNCHANGED <<engine, earlier, peer, startup, waiting, mirror, chunks>>

\* as OnlineEnd, with a loop around the call
OnlineLoop ==
    /\ online.pc = "called"
    /\ pc = "walk"
    /\ online' = [online EXCEPT !.pc = "start"]
    /\ UNCHANGED <<engine, earlier, peer, startup, waiting, mirror, chunks>>

\* run() has returned and main() ends
OnlineEnd ==
    /\ online.pc = "called"
    /\ pc = "walk"
    /\ online' = [online EXCEPT !.pc = "done"]
    /\ UNCHANGED <<engine, earlier, peer, startup, waiting, mirror, chunks>>

InitOnline ==
    /\ EarlierOff
    /\ peer = NoPeer
    /\ startup = NoStartup
    /\ waiting = NoWaiting
    /\ mirror = NoMirror
    /\ chunks = NoChunks
    /\ online \in {[pc |-> "start", path |-> p, calls |-> 0, logged |-> FALSE] :
                     p \in FolderSet \cup {None}}
    /\ is_force \in BOOLEAN
    /\ is_maxwell \in BOOLEAN
    /\ configuration \in [reserved_nodes : NodeLists]
    /\ info \in [FolderSet -> BlocksInfos]
    /\ files \in [FolderSet -> BlocksFileSets]
    /\ proc = [f \in FolderSet |-> NoDir]
    /\ pc = "walk"
    /\ pass = 1
    /\ todo = <<>>
    /\ root = None
    /\ d = NoDispatch
    /\ plan = <<>>
    /\ squeue = NoQuery
    /\ script = NoScript
    /\ submitted = [f \in FolderSet |-> {}]
    /\ error = None

NextOnline ==
    \/ OnlineRun
    \/ OnlineNoPath
    \/ OnlineEnd
    \/ RunForce
    \/ RunDispatch
    \/ FillTemplate
    \/ CapacityQuery
    \/ Submit
    \/ TouchFlag
    \/ RunReturn

SpecOnline == InitOnline /\ [][NextOnline]_vars

\* ------------------------------------------------- a second instance
\* Another process of the same program at work on the same raw tree and
\* the same output tree, followed through one run() on a rotational
\* folder: the call up to the skip message, the two sbatch calls, the
\* flag.  It shares proc with the first instance; the files it renders
\* inside xds/ are not tracked.

\* as PeerCheck, held back while the first instance is at work on the
\* same folder
PeerCheckLocked ==
    /\ ~(root = peer.root /\ pc \in {"force", "classify", "pipeline"})
    /\ peer.pc = "check"
    /\ IF ~Eligible(peer.root) \/ RotationalFrames(peer.root) = {}
       THEN /\ peer' = [peer EXCEPT !.pc = "done"]
            /\ UNCHANGED proc
       ELSE /\ peer' = [peer EXCEPT !.pc = "pipeline",
                                    !.flagSeen = HasFlag(peer.root)]
            /\ proc' = [proc EXCEPT ![peer.root].exists = TRUE,
                                    ![peer.root].entries =
                                        @ \cup {"xds", "autoPROC"}]
    /\ UNCHANGED <<args, earlier, online, startup, waiting, mirror, chunks,
                   info,
                   files, pc, pass, todo, root, d, plan, squeue, script,
                   submitted, error>>

\* run() up to the pipeline call: the early return, makedirs, the test of
\* flag.txt for the skip message (which does not return), the two
\* subdirectories
PeerCheck ==
    /\ peer.pc = "check"
    /\ IF ~Eligible(peer.root) \/ RotationalFrames(peer.root) = {}
       THEN /\ peer' = [peer EXCEPT !.pc = "done"]
            /\ UNCHANGED proc
       ELSE /\ peer' = [peer EXCEPT !.pc = "pipeline",
                                    !.flagSeen = HasFlag(peer.root)]
            /\ proc' = [proc EXCEPT ![peer.root].exists = TRUE,
                                    ![peer.root].entries =
                                        @ \cup {"xds", "autoPROC"}]
    /\ UNCHANGED <<args, earlier, online, startup, waiting, mirror, chunks,
                   info,
                   files, pc, pass, todo, root, d, plan, squeue, script,
                   submitted, error>>

\* xds_start for XDS, then for autoPROC
PeerSubmit ==
    /\ peer.pc = "pipeline"
    /\ peer.nsub < 2
    /\ \E status \in {0, 1} :
         peer' = IF status = 0 THEN [peer EXCEPT !.nsub = @ + 1]
                               ELSE [peer EXCEPT !.pc = "exit"]
    /\ UNCHANGED <<engine, earlier, online, startup, waiting, mirror, chunks>>

\* (folder / 'flag.txt').touch()
PeerFlag ==
    /\ peer.pc = "pipeline"
    /\ peer.nsub = 2
    /\ peer' = [peer EXCEPT !.pc = "done"]
    /\ proc' = [proc EXCEPT ![peer.root].entries = @ \cup {"flag.txt"}]
    /\ UNCHANGED <<args, earlier, online, startup, waiting, mirror, chunks,
                   info,
                   files, pc, pass, todo, root, d, plan, squeue, script,
                   submitted, error>>

InitRace ==
    /\ EarlierOff
    /\ online = NoOnline
    /\ startup = NoStartup
    /\ waiting = NoWaiting
    /\ mirror = NoMirror
    /\ chunks = NoChunks
    /\ peer \in {[pc |-> "check", root |-> f, flagSeen |-> FALSE, nsub |-> 0] :
                    f \in FolderSet}
    /\ is_force = FALSE
    /\ is_maxwell = TRUE
    /\ configuration = [reserved_nodes |-> ""]
    /\ info \in [FolderSet -> BlocksInfos]
    /\ files \in [FolderSet -> BlocksFileSets]
    /\ proc = [f \in FolderSet |-> NoDir]
    /\ pc = "walk"
    /\ pass = 1
    /\ todo = Folders
    /\ root = None
    /\ d = NoDispatch
    /\ plan = <<>>
    /\ squeue = NoQuery
    /\ script = NoScript
    /\ submitted = [f \in FolderSet |-> {}]
    /\ error = None

NextRace ==
    \/ RunBegin
    \/ RunForce
    \/ RunDispatch
    \/ FillTemplate
    \/ Submit
    \/ TouchFlag
    \/ RunReturn
    \/ PeerCheck
    \/ PeerSubmit
    \/ PeerFlag

SpecRace == InitRace /\ [][NextRace]_vars

\* ================================================================ claims

\* the words of the eligibility rule: a non-empty info.txt and more than
\* one regular file
Usable(f) ==
    /\ info[f].exists
    /\ Len(info[f].lines) > 0
    /\ Cardinality(files[f]) + 1 >= 2

\* run() is about to be called on folder f
Calling(f) == pc = "walk" /\ todo # <<>> /\ Head(todo) = f

\* C1: with force-mode off, a run() that finds flag.txt in the folder's
\* output directory submits no job.
C1_FlagBlocksDispatch == (~is_force /\ d.flagSeen) => d.nsub = 0

\* C2: with force-mode off, the jobs of a folder are submitted in at most
\* one sweep.
C2_AtMostOneSweep ==
    ~is_force => \A f \in FolderSet : Cardinality(submitted[f]) <= 1

\* C3: run() on a folder without info.txt, with an empty info.txt or with
\* at most one regular file changes nothing: no output directory, no flag,
\* no job script, no submission, and main() goes on.
C3_UnusableFolderIsNoOp ==
    [][\A f \in FolderSet :
          (Calling(f) /\ ~Usable(f)) =>
              /\ proc' = proc
              /\ submitted' = submitted
              /\ script' = script
              /\ plan' = <<>>
              /\ pc' = "walk"
              /\ error' = error]_vars

C3_Witness ==
    /\ root # None
    /\ pc = "walk"
    /\ info[root].exists /\ info[root].lines = <<>>
    /\ Cardinality(files[root]) >= 2
    /\ ~proc[root].exists

\* C4 as claimed: once a job of a forced dispatch that found the flag has
\* been submitted, every entry the clean-up listed, the flag included, has
\* been removed.
C4_AllRemovedBeforeSubmit ==
    (d.flagAtForce /\ d.nsub > 0) => d.undeleted = {}

\* C4 as amended: the forced clean-up of a folder with a flag leaves in the
\* output directory exactly the listed entries whose deletion failed, it
\* submits nothing itself, and jobs are submitted only later, by the
\* pipeline.
C4_CleanupBeforeSubmit ==
    [][/\ (pc = "force" /\ is_force /\ HasFlag(root)) =>
              /\ d'.flagAtForce
              /\ d'.listed = proc[root].entries
              /\ d'.undeleted \subseteq d'.listed
              /\ proc'[root].entries = d'.undeleted
              /\ d'.nsub = 0
              /\ submitted' = submitted
       /\ (d'.nsub > d.nsub \/ submitted' # submitted) => pc = "pipeline"]_vars

C4_Witness ==
    /\ d.flagAtForce
    /\ "flag.txt" \in d.listed
    /\ d.undeleted = {}
    /\ d.nsub > 0

\* C5: when a pipeline has submitted its jobs and returns, flag.txt is in
\* the folder's output directory, where run() looks for it.
C5_FlagWhereRunLooks ==
    (pc = "pipeline" /\ plan = <<>> /\ d.nsub > 0) => HasFlag(root)

\* C6: run() on a usable folder always reaches one pipeline, the one the
\* rule names; reading the descriptor never fails.
C6_ClassificationTotal ==
    [][/\ \A f \in FolderSet :
            (Calling(f) /\ Usable(f)) => error' # "ValueError"
       /\ pc = "classify" =>
            LET m == FieldTable[Last(info[root].lines[1])].strip
                n == FramesPerPosition(info[root].lines).value
            IN  d'.pipeline =
                    (IF m = "rotational" THEN "rotational"
                     ELSE IF m = "grid step" /\ n > 1 THEN "wedge"
                     ELSE "serial")]_vars

\* C7: a failed sbatch call does not end the scan loop.
C7_SubmitFailureConfined == error = "CalledProcessError" => pc # "exit"

\* C8: no other error of a dispatch (a frames/position value that is no
\* integer, a template or descriptor problem, a wait that times out, a serial
\* chunk without .h5 or .cbf files) ends the scan loop.
C8_FolderErrorConfined ==
    error \in {"ValueError", "KeyError", "FileNotFoundError", "TimeoutError",
               "ZeroDivisionError", "SystemExit"} => pc # "exit"

\* C9: the guard answers True exactly when squeue printed more than 25
\* lines.
C9_OverloadedIffAboveLimit ==
    (squeue.asked /\ squeue.answer.kind = "ok") =>
        (squeue.overloaded <=> squeue.answer.lines > 25)

C9_Witness ==
    /\ squeue.asked
    /\ squeue.answer = Answer("ok", 26)
    /\ squeue.overloaded

\* C10: whichever way the squeue call fails, the guard answers "not
\* overloaded" and nothing is raised.
C10_GuardFailsOpen ==
    (squeue.asked /\ squeue.answer.kind # "ok") =>
        (~squeue.overloaded /\ error = None /\ pc = "pipeline")

\* the job script is being written and submitted in this step
Writing == Running("job") /\ (NeedsQuery(Head(plan)) => squeue.asked)

\* C11: every job script written has one of three resource profiles:
\* with reserved nodes given and not overloaded, their reservation, the
\* configured partition and no limit; with reserved nodes given and
\* overloaded, no reservation, the shared partition and no limit; with the
\* maxwell sentinel, no reservation and the time, memory and nice limits.
C11_ThreeProfiles ==
    [][Writing =>
         LET nodes == Head(plan).nodes
             given == nodes # "maxwell" /\ nodes # ""
         IN  \/ /\ given /\ ~squeue.overloaded
                /\ script'.reservation = nodes
                /\ script'.partition = "ponline_p09"
                /\ script'.limits = {}
             \/ /\ given /\ squeue.overloaded
                /\ script'.reservation = None
                /\ script'.partition = "allcpu,upex,short"
                /\ script'.limits = {}
             \/ /\ nodes = "maxwell"
                /\ script'.reservation = None
                /\ script'.limits = {"time", "mem", "nice"}]_vars

\* the placeholders of the template that the renderer's mapping lacks
Unresolved ==
    {i \in 1..Len(rendering.text) :
        /\ rendering.text[i].kind \in {"named", "braced"}
        /\ rendering.text[i].name \notin template_data(rendering.renderer)}

\* C12: rendering a template with a placeholder the mapping does not define
\* completes, and the placeholder stands verbatim in the output; for the
\* XDS.INP and geometry templates as for the configuration template.
C12_UnresolvedKeptVerbatim ==
    (/\ rendering.renders > 0
     /\ \A i \in 1..Len(rendering.text) : rendering.text[i].kind # "invalid")
        => /\ rendering.raised = None
           /\ Unresolved # {} => rendering.out # {}
           /\ \A c \in rendering.out :
                 \A i \in Unresolved : c[i] = rendering.text[i]

WedgeFrames ==
    { <<s_000001_00001_cbf, 1, 1>>, <<s_000001_00010_cbf, 1, 10>>,
      <<s_000002_00001_cbf, 2, 1>>, <<t_000001_00005_cbf, 1, 5>>,
      <<s_000000_00007_cbf, 0, 7>> }

\* the frame numbers listed for position p
FramesAt(p) ==
    {w[3] : w \in {v \in WedgeFrames : v[1] \in grouping.listing /\ v[2] = p}}

Completed == pc = "pipeline" /\ plan = <<>>

\* C15: a wedge dispatch that runs to its end has rendered one XDS.INP and
\* submitted one XDS job for every position among the folder's frame files,
\* each in that position's own directory, and nothing else.
C15_OneJobPerPosition ==
    (d.pipeline = "wedge" /\ Completed) =>
        LET groups == {p \in 1..2 :
                         \E x \in files[root] : x.ext = "cbf" /\ x.pos = p}
        IN  /\ Len(d.jobs) = Cardinality(groups)
            /\ d.nsub = Cardinality(groups)
            /\ Len(d.fills) = Cardinality(groups)
            /\ \A p \in groups :
                  /\ \E i \in 1..Len(d.jobs) :
                        d.jobs[i].at = p /\ d.jobs[i].kind = "XDS"
                  /\ \E i \in 1..Len(d.fills) : d.fills[i].at = p

C15_Witness ==
    /\ d.pipeline = "wedge"
    /\ Completed
    /\ Len(d.jobs) = 2
    /\ d.jobs[1].at # d.jobs[2].at

\* C16: in a rotational dispatch whose first frame file, in sorted order,
\* is a master file, XDS.INP is rendered once, and the frame-name template
\* passed to the rendering is that file's path with _master. replaced by
\* _??????. .
C16_MasterFrameTemplate ==
    LET a_first == MasterA \in files[root]
        x_first == /\ Master \in files[root]
                   /\ MasterA \notin files[root]
                   /\ \A y \in files[root] : y.ext # "cbf"
    IN  (root # None /\ d.pipeline = "rotational" /\ (a_first \/ x_first)) =>
            /\ Len(d.fills) <= 1
            /\ (d.nsub > 0 \/ Completed) => Len(d.fills) = 1
            /\ \A i \in 1..Len(d.fills) :
                  d.fills[i].name =
                      IF a_first THEN <<"a", "_??????.", "cxi">>
                                 ELSE <<"x", "_??????.", "h5">>

C16_Witness ==
    /\ root # None
    /\ d.pipeline = "rotational"
    /\ files[root] = {MasterA, Cbf11}
    /\ Completed
    /\ d.nsub = 2
    /\ Len(d.fills) = 1
    /\ d.fills[1].name = <<"a", "_??????.", "cxi">>

\* the calls in which no line of the file can give a value for the key
NothingToExtract ==
    LET lines == extraction.file.lines
        key == extraction.key
        numeric == ~extraction.is_string
    IN  \/ ~extraction.file.exists
        \/ ~extraction.file.readable
        \/ lines = <<>>
        \/ key = "wavelength" /\ lines # <<Lserial, Lframes100, Lwave>>
        \/ key = "indexing_method"
              /\ (numeric \/ lines \notin {<<LindexCell, Ldist150>>,
                                           <<LframesBad, LframesSet, Lindex>>})
        \/ key = "distance"
              /\ \/ lines \notin {<<LindexCell, Ldist150>>,
                                  <<LdistNeg, LframesInf>>, <<LdistBare>>}
                 \/ numeric /\ lines = <<LdistBare>>
        \/ key = "frames" /\ numeric /\ ~extraction.is_float
              /\ lines = <<LdistNeg, LframesInf>>
        \/ key = "frames"
              /\ lines \in {<<LindexCell, Ldist150>>, <<LdistBare>>}

\* C17: extract_value_from_info raises nothing, whatever the file and the
\* key; when the file is absent, unreadable or empty, or no line gives a
\* value, it returns the caller's fallback, or 0 (numeric mode) or the
\* empty text (string mode) when the caller gave none.
C17_NeverRaises ==
    extraction.called =>
        /\ extraction.returned.raised = None
        /\ NothingToExtract =>
              extraction.returned.value =
                  IF extraction.fallback = {7} THEN 7
                  ELSE IF extraction.is_string THEN <<"">> ELSE 0

C17_Witness ==
    /\ extraction.called
    /\ extraction.file.exists /\ ~extraction.file.readable
    /\ extraction.fallback = {} /\ extraction.is_string
    /\ extraction.returned = [raised |-> None, value |-> <<"">>]

\* what the two modes must return, written out by hand: the text after the
\* first colon in string mode; the first number of the line in numeric
\* mode, in hundredths as a float and cut towards zero as an integer
ExtractCases ==
    << [lines |-> <<LindexCell, Ldist150>>, key |-> "indexing_method",
       mode |-> "string", value |-> <<"file", "a.cell">>],
      [lines |-> <<LframesBad, LframesSet, Lindex>>, key |-> "indexing_method",
       mode |-> "string", value |-> <<"xgandalf">>],
      [lines |-> <<Lserial, Lframes100, Lwave>>, key |-> "frames",
       mode |-> "string", value |-> <<"100">>],
      [lines |-> <<LindexCell, Ldist150>>, key |-> "distance",
       mode |-> "float", value |-> 15000],
      [lines |-> <<LindexCell, Ldist150>>, key |-> "distance",
       mode |-> "int", value |-> 150],
      [lines |-> <<LdistNeg, LframesInf>>, key |-> "distance",
       mode |-> "float", value |-> -270],
      [lines |-> <<LdistNeg, LframesInf>>, key |-> "distance",
       mode |-> "int", value |-> -2],
      [lines |-> <<Lserial, Lframes100, Lwave>>, key |-> "wavelength",
       mode |-> "float", value |-> 98],
      [lines |-> <<Lserial, Lframes100, Lwave>>, key |-> "wavelength",
       mode |-> "int", value |-> 0],
      [lines |-> <<Lserial, Lframes100, Lwave>>, key |-> "frames",
       mode |-> "int", value |-> 100],
      [lines |-> <<LframesBad, LframesSet, Lindex>>, key |-> "frames",
       mode |-> "float", value |-> 200],
      [lines |-> <<LframesBad, LframesSet, Lindex>>, key |-> "frames",
       mode |-> "int", value |-> 2] >>

\* C18: in string mode the function returns the text after the first colon
\* of the line with the key, stripped; in numeric mode the first number on
\* that line, as a float, or cut towards zero to an integer.
C18_TwoModes ==
    extraction.called =>
        \A i \in DOMAIN ExtractCases :
            LET c == ExtractCases[i] IN
            (/\ extraction.file.exists /\ extraction.file.readable
             /\ extraction.file.lines = c.lines
             /\ extraction.key = c.key
             /\ c.mode = (IF extraction.is_string THEN "string"
                          ELSE IF extraction.is_float THEN "float" ELSE "int"))
                => extraction.returned = [raised |-> None, value |-> c.value]

C18_Witness ==
    /\ extraction.called
    /\ extraction.file.lines = <<LindexCell, Ldist150>>
    /\ extraction.key = "indexing_method"
    /\ extraction.is_string
    /\ extraction.returned.value = <<"file", "a.cell">>

\* a candidate that parses and has every key the result is built from
ValidCandidate(c) ==
    c.opens = "ok" /\ c.parses /\ MetadataKeys \subseteq c.keys

\* C19: when every candidate can be opened, find_and_parse_metadata
\* returns the first candidate that parses and has the required keys
\* (corePath included), skipping the others, and raises FileNotFoundError
\* only when there is no such candidate.
C19_InvalidCandidatesSkipped ==
    (/\ metadata.pc = "done"
     /\ metadata.base_exists
     /\ \A k \in DOMAIN metadata.json_files :
            metadata.json_files[k].opens = "ok")
    => LET valid == {k \in DOMAIN metadata.json_files :
                        ValidCandidate(metadata.json_files[k])}
       IN  IF valid = {}
           THEN metadata.raised = "FileNotFoundError" /\ metadata.result = 0
           ELSE metadata.raised = None /\ metadata.result = Min(valid)

\* which folders each line of a --blocks file names, written out by hand
\* for /r/a (f1) and /r/b/a (f2) under the raw directory /r
ListedBy(line) ==
    IF line \in {Line_a, Line_a_pad} THEN {"f1", "f2"}
    ELSE IF line \in {Line_b, Line_ba} THEN {"f2"}
    ELSE {}

Listed(f) ==
    \E j \in DOMAIN worklist.blocks : f \in ListedBy(worklist.blocks[j])

\* C20: with a --blocks file, run() works only on folders whose path below
\* the raw directory contains one of the listed substrings: a folder that
\* matches none gets no output directory and no job, and blank lines match
\* nothing.
C20_OnlyListedFolders ==
    \A f \in FolderSet :
        (root = f \/ proc[f].exists \/ submitted[f] # {}) => Listed(f)

C20_Witness ==
    /\ worklist.blocks = <<LineSpaces, Line_b>>
    /\ todo = <<>>
    /\ pc = "walk"
    /\ submitted["f2"] # {}
    /\ submitted["f1"] = {}
    /\ ~proc["f1"].exists

\* C21: in the full sweep every walk calls run() on the next directory of
\* the tree and a new walk follows each one; so a folder that has become
\* eligible is dispatched to its pipeline, unless an error ends the loop.
C21_EligibleIsDispatched ==
    /\ [][(pc = "walk" /\ todo # <<>> /\ pc' # pc) => root' = Head(todo)]_vars
    /\ []<>(pc = "exit" \/ (pc = "walk" /\ todo = Folders))
    /\ \A f \in FolderSet :
          (Usable(f) /\ todo = <<>>)
              ~> (pc = "exit" \/ (root = f /\ pc = "pipeline"))

\* a folder that was not eligible when the first walk passed it has its
\* job submitted in the second
C21_Witness ==
    /\ pass = 2
    /\ root = "f1"
    /\ pc = "pipeline"
    /\ submitted["f1"] = {2}
    /\ d.nsub > 0

\* C22: without --offline, run() is called once, on the given path, and
\* main() ends after it; with no path nothing is dispatched and an error
\* is logged.
C22_OnlineRunsOnce ==
    /\ online.calls <= 1
    /\ online.calls = 1 => root = online.path
    /\ \A f \in FolderSet :
          (proc[f].exists \/ submitted[f] # {}) => f = online.path
    /\ online.pc = "done" =>
          IF online.path = None
          THEN online.calls = 0 /\ online.logged /\ root = None
          ELSE online.calls = 1 /\ ~online.logged

C22_Witness ==
    /\ online.pc = "done"
    /\ online.path = "f2"
    /\ online.calls = 1
    /\ submitted["f2"] # {}
    /\ submitted["f1"] = {}

Dispatching(f) ==
    /\ root = f
    /\ pc \in {"force", "classify", "pipeline"}
    /\ "flag.txt" \notin proc[f].entries

\* C24: with force-mode off, nothing but flag.txt holds an instance back:
\* while one instance is inside its dispatch of a folder and has not yet
\* written the flag, a second instance that calls run() on the same folder
\* goes on to its pipeline, so that both submit jobs for the folder.
C24_NoMutualExclusion ==
    /\ (peer.pc = "check" /\ Dispatching(peer.root)) => ENABLED PeerCheck
    /\ (peer.pc = "pipeline" /\ ~peer.flagSeen /\ peer.nsub < 2)
          => ENABLED PeerSubmit

\* both instances found no flag and both have submitted, before either
\* has written the flag
C24_Witness ==
    /\ ~is_force
    /\ root = peer.root
    /\ pc = "pipeline" /\ ~d.flagSeen /\ d.nsub > 0
    /\ peer.pc = "pipeline" /\ ~peer.flagSeen /\ peer.nsub > 0
    /\ "flag.txt" \notin proc[root].entries

\* ---------------------------------------------------------------------
\* The start of main(): the wait for the raw-data directory, the folder
\* structure, and the beamtime metadata, up to the choice of the mode
\* ---------------------------------------------------------------------

MaxPolls == 2

\* the directory is created by the data acquisition, not by this program
RawAppears ==
    /\ startup.pc = "wait"
    /\ ~startup.raw_exists
    /\ startup' = [startup EXCEPT !.raw_exists = TRUE]
    /\ UNCHANGED <<engine, earlier, online, peer, waiting, mirror, chunks>>

\* one turn of "while True: if os.path.exists(raw_directory): break":
\* no sleep, no count of the turns and no way out but the break.  The
\* turns are counted round MaxPolls, so that every turn is a step however
\* long the loop has gone on.
StartupPoll ==
    /\ startup.pc = "wait"
    /\ startup' =
          IF startup.raw_exists
          THEN [startup EXCEPT !.pc = "setup"]
          ELSE [startup EXCEPT !.polls = 1 + (@ % MaxPolls)]
    /\ UNCHANGED <<engine, earlier, online, peer, waiting, mirror, chunks>>

\* creating_folder_structure, setup_logger and the call of
\* find_and_parse_metadata(raw_directory)
StartupSetup ==
    /\ startup.pc = "setup"
    /\ startup' = [startup EXCEPT !.pc = "metadata"]
    /\ metadata' = [metadata EXCEPT !.pc = "start"]
    /\ UNCHANGED <<engine, worklist, rendering, grouping, extraction,
                   online, peer, waiting, mirror, chunks>>

\* the metadata is back: the configuration is updated and a mode is
\* entered, or the exception of find_and_parse_metadata ends main()
StartupEnd ==
    /\ startup.pc = "metadata"
    /\ metadata.pc = "done"
    /\ startup' = [startup EXCEPT
                      !.pc = IF metadata.raised = None
                             THEN "dispatch" ELSE "error"]
    /\ UNCHANGED <<engine, earlier, online, peer, waiting, mirror, chunks>>

InitStartup ==
    /\ EngineOff
    /\ worklist = NoWorklist
    /\ rendering = NoRendering
    /\ grouping = NoGrouping
    /\ extraction = NoExtraction
    /\ metadata \in
          {[pc |-> "idle", base_exists |-> TRUE, json_files |-> js, i |-> 1,
            result |-> 0, raised |-> None] : js \in CandidateLists}
    /\ online = NoOnline
    /\ peer = NoPeer
    /\ waiting = NoWaiting
    /\ mirror = NoMirror
    /\ chunks = NoChunks
    /\ startup \in {[pc |-> "wait", raw_exists |-> b, polls |-> 0] :
                       b \in BOOLEAN}

StartupProgram ==
    \/ StartupPoll
    \/ StartupSetup
    \/ MetadataStart
    \/ MetadataCandidate
    \/ MetadataNoneValid
    \/ StartupEnd

NextStartup ==
    \/ StartupProgram
    \/ RawAppears

SpecStartup ==
    InitStartup /\ [][NextStartup]_vars /\ WF_vars(StartupProgram)

\* ---------------------------------------------------------------------
\* The waits for an input file: wait_until_file_is_readable, called by
\* retrieving_info_from_cbf, and the wait for the last listed frame in
\* serial_data_processing.  Time is counted in half seconds.
\* ---------------------------------------------------------------------

MaxRetries == 3

\* retrieving_info_from_cbf calls wait_until_file_is_readable(timeout=30)
ReadableTimeout == 30

\* the file is written, moved or removed by others while the program waits
FileAppears ==
    /\ waiting.pc \in {"listed", "waiting"}
    /\ ~waiting.available
    /\ waiting' = [waiting EXCEPT !.available = TRUE]
    /\ UNCHANGED <<engine, earlier, online, peer, startup, mirror,
                   chunks>>

FileVanishes ==
    /\ waiting.pc \in {"listed", "waiting"}
    /\ waiting.available
    /\ waiting' = [waiting EXCEPT !.available = FALSE]
    /\ UNCHANGED <<engine, earlier, online, peer, startup, mirror,
                   chunks>>

\* one turn of the loop of wait_until_file_is_readable: return when open()
\* succeeds, raise TimeoutError when more than timeout seconds have
\* passed, else sleep half a second and try again
ReadableTry ==
    /\ waiting.pc = "waiting"
    /\ waiting.kind = "readable"
    /\ waiting' =
          IF waiting.available
          THEN [waiting EXCEPT !.pc = "available"]
          ELSE IF waiting.elapsed > 2 * waiting.timeout
          THEN [waiting EXCEPT !.pc = "failed"]
          ELSE [waiting EXCEPT !.elapsed = @ + 1,
                               !.tries = Min({@ + 1, MaxRetries})]
    /\ UNCHANGED <<engine, earlier, online, peer, startup, mirror,
                   chunks>>

\* serial_data_processing has listed the frames with glob and takes the
\* last of them
SerialListed ==
    /\ waiting.pc = "listed"
    /\ waiting' = [waiting EXCEPT !.pc = "waiting"]
    /\ UNCHANGED <<engine, earlier, online, peer, startup, mirror,
                   chunks>>

\* one turn of "while not os.path.exists(last_file): time.sleep(5)":
\* no clock is read and nothing is raised.  The turns are counted round
\* MaxRetries, so that every turn is a step however long the loop has
\* gone on.
SerialTry ==
    /\ waiting.pc = "waiting"
    /\ waiting.kind = "exists"
    /\ waiting' =
          IF waiting.available
          THEN [waiting EXCEPT !.pc = "available"]
          ELSE [waiting EXCEPT !.tries = 1 + (@ % MaxRetries)]
    /\ UNCHANGED <<engine, earlier, online, peer, startup, mirror,
                   chunks>>

InitWaits ==
    /\ EngineOff
    /\ EarlierOff
    /\ online = NoOnline
    /\ peer = NoPeer
    /\ startup = NoStartup
    /\ mirror = NoMirror
    /\ chunks = NoChunks
    /\ waiting \in
          {[pc |-> "waiting", kind |-> "readable",
            timeout |-> ReadableTimeout, elapsed |-> 0, tries |-> 0,
            available |-> b] : b \in BOOLEAN}
          \cup
          {[pc |-> "listed", kind |-> "exists", timeout |-> 0,
            elapsed |-> 0, tries |-> 0, available |-> TRUE]}

WaitProgram ==
    \/ ReadableTry
    \/ SerialListed
    \/ SerialTry

NextWaits ==
    \/ WaitProgram
    \/ FileAppears
    \/ FileVanishes

SpecWaits == InitWaits /\ [][NextWaits]_vars /\ WF_vars(WaitProgram)

\* ---------------------------------------------------------------------
\* The mirrored output path of run(), on its own: paths are sequences of
\* characters, the folders are those os.walk(raw_directory) yields
\* ---------------------------------------------------------------------

MaxCalls == 3

\* as lstrip_sep, with nothing stripped
keep_sep(path) == path

\* str.lstrip(os.sep)
RECURSIVE lstrip_sep(_)
lstrip_sep(path) ==
    IF path # <<>> /\ Head(path) = "/"
    THEN lstrip_sep(Tail(path))
    ELSE path

\* os.path.join of two parts: an absolute second part replaces the first,
\* a separator is put in unless the first part is empty or ends with one
path_join(a, b) ==
    IF b # <<>> /\ Head(b) = "/" THEN b
    ELSE IF a = <<>> \/ Last(a) = "/" THEN a \o b
    ELSE a \o <<"/">> \o b

\* subpath and proc_subpath of run()
proc_subpath(raw_dir, proc_dir, path) ==
    path_join(proc_dir,
              lstrip_sep(SubSeq(path, Len(raw_dir) + 1, Len(path))))

\* raw_directory and processed_directory as the configuration may spell
\* them
RawDirs == { <<"/", "r">>, <<"/", "r", "/">> }
ProcDirs == { <<"/", "p">>, <<"/", "p", "/">> }

\* the directories below the top one, each by the names on the way down
WalkDirs ==
    << <<>>,
       << <<"a">> >>,
       << <<"b">> >>,
       << <<"a", "b">> >>,
       << <<"a">>, <<"b">> >>,
       << <<"b">>, <<"a">> >>,
       << <<"a">>, <<"a", "b">> >> >>

\* the root os.walk(top) yields for a directory: top itself, and
\* os.path.join(root of the parent, name) below it
RECURSIVE WalkRoot(_, _)
WalkRoot(top, names) ==
    IF names = <<>> THEN top
    ELSE path_join(WalkRoot(top, SubSeq(names, 1, Len(names) - 1)),
                   Last(names))

\* run(root) up to makedirs, for one of the two folders looked at
MirrorRun(k) ==
    /\ mirror.calls < MaxCalls
    /\ LET path == proc_subpath(mirror.raw_dir, mirror.proc_dir,
                                mirror.roots[k])
       IN  mirror' = [mirror EXCEPT
                         !.calls = @ + 1,
                         !.out[k] = path,
                         !.changed = @ \/ mirror.out[k] \notin {<<>>, path}]
    /\ UNCHANGED <<engine, earlier, online, peer, startup, waiting,
                   chunks>>

InitMirror ==
    /\ chunks = NoChunks
    /\ EngineOff
    /\ EarlierOff
    /\ online = NoOnline
    /\ peer = NoPeer
    /\ startup = NoStartup
    /\ waiting = NoWaiting
    /\ \E raw \in RawDirs, processed \in ProcDirs :
         \E i \in DOMAIN WalkDirs, j \in DOMAIN WalkDirs :
            mirror = [calls |-> 0, raw_dir |-> raw, proc_dir |-> processed,
                      dirs |-> <<i, j>>,
                      roots |-> <<WalkRoot(raw, WalkDirs[i]),
                                  WalkRoot(raw, WalkDirs[j])>>,
                      out |-> << <<>>, <<>> >>, changed |-> FALSE]

NextMirror == \E k \in 1..2 : MirrorRun(k)

SpecMirror == InitMirror /\ [][NextMirror]_vars

\* ---------------------------------------------------------------------
\* The --blocks mode to its end, with the experiment writing meanwhile
\* ---------------------------------------------------------------------

\* as BlocksEnd, with the walk inside a while True as in the full sweep
BlocksAgain ==
    /\ pc = "walk"
    /\ worklist.read
    /\ todo = <<>>
    /\ todo' = Folders
    /\ UNCHANGED <<args, aside, info, files, proc, pc, pass, root, d, plan,
                   squeue, script, submitted, error>>

\* os.walk is exhausted: nothing follows the for loop, main() returns
BlocksEnd ==
    /\ pc = "walk"
    /\ worklist.read
    /\ todo = <<>>
    /\ pc' = "returned"
    /\ UNCHANGED <<args, aside, info, files, proc, pass, todo, root, d, plan,
                   squeue, script, submitted, error>>

InitWorklist ==
    /\ LaterOff
    /\ rendering = NoRendering
    /\ grouping = NoGrouping
    /\ extraction = NoExtraction
    /\ metadata = NoMetadata
    /\ worklist \in {[blocks |-> b, read |-> FALSE, to_process |-> <<>>,
                       k |-> 1] : b \in BlockFiles}
    /\ is_force = FALSE
    /\ is_maxwell = TRUE
    /\ configuration = [reserved_nodes |-> ""]
    /\ info \in [FolderSet -> BlocksInfos]
    /\ files \in [FolderSet -> BlocksFileSets]
    /\ proc = [f \in FolderSet |-> NoDir]
    /\ pc = "walk"
    /\ pass = 1
    /\ todo = Folders
    /\ root = None
    /\ d = NoDispatch
    /\ plan = <<>>
    /\ squeue = NoQuery
    /\ script = NoScript
    /\ submitted = [f \in FolderSet |-> {}]
    /\ error = None

\* the steps of the one thread of the program
WorklistProgram ==
    \/ BlocksRead
    \/ BlocksRun
    \/ BlocksSkip
    \/ BlocksNextRoot
    \/ RunForce
    \/ RunDispatch
    \/ FillTemplate
    \/ Submit
    \/ TouchFlag
    \/ RunReturn
    \/ BlocksEnd

NextWorklist == WorklistProgram \/ Acquire

SpecWorklist ==
    InitWorklist /\ [][NextWorklist]_vars /\ WF_vars(WorklistProgram)

\* ---------------------------------------------------------------------
\* A serial dispatch by numbers: NFRAMES frames, one list line per frame,
\* split -l split_lines into pieces events-<name>.lst000, 001, ... that
\* are named here by their suffix
\* ---------------------------------------------------------------------

\* the frame counts looked at
FrameCounts == {0, 1, 250, 251, 999, 1000, 1001, 1250, 1251, 1600, 2000,
                2001, 2600}

\* sorted(...) of a set of numbers
RECURSIVE Sorted(_)
Sorted(S) ==
    IF S = {} THEN <<>> ELSE <<Min(S)>> \o Sorted(S \ {Min(S)})

\* one round of the loop of serial_processing, and serial_data_processing
\* up to its submit loop: the frames of data_range are listed, the list
\* is split under the prefix events-<name>.lst, which is the same in every
\* round, and glob(prefix*) gives the pieces to submit
ChunkBegin ==
    /\ chunks.pc = "loop"
    /\ chunks.start_index < chunks.NFRAMES
    /\ LET start_index == chunks.start_index
           end_index == Min({start_index + chunk_size, chunks.NFRAMES})
           fresh == 0..(Pieces(end_index - start_index) - 1)
       IN  chunks' = [chunks EXCEPT
                         !.pc = "submit",
                         !.ranges = Append(@, [iteration |-> chunks.iteration,
                                               start |-> start_index,
                                               end |-> end_index]),
                         !.disk = @ \cup fresh,
                         !.queue = Sorted(chunks.disk \cup fresh)]
    /\ UNCHANGED <<engine, earlier, online, peer, startup, waiting, mirror>>

\* one round of the submit loop: the script is written and sbatch called
ChunkSubmit ==
    /\ chunks.pc = "submit"
    /\ chunks.queue # <<>>
    /\ \E status \in {0, 1} :
         chunks' =
            IF status = 0
            THEN [chunks EXCEPT
                     !.queue = Tail(@),
                     !.sent = Append(@, [iteration |-> chunks.iteration,
                                         piece |-> Head(chunks.queue)])]
            ELSE [chunks EXCEPT !.pc = "error"]
    /\ UNCHANGED <<engine, earlier, online, peer, startup, waiting, mirror>>

\* serial_data_processing returns; iteration += 1 and the next start_index
ChunkNext ==
    /\ chunks.pc = "submit"
    /\ chunks.queue = <<>>
    /\ chunks' = [chunks EXCEPT !.pc = "loop",
                                !.iteration = @ + 1,
                                !.start_index = @ + chunk_size]
    /\ UNCHANGED <<engine, earlier, online, peer, startup, waiting, mirror>>

\* the range is exhausted: flag.txt is touched
ChunkFlag ==
    /\ chunks.pc = "loop"
    /\ chunks.start_index >= chunks.NFRAMES
    /\ chunks' = [chunks EXCEPT !.pc = "done"]
    /\ UNCHANGED <<engine, earlier, online, peer, startup, waiting, mirror>>

InitSerial ==
    /\ EngineOff
    /\ EarlierOff
    /\ online = NoOnline
    /\ peer = NoPeer
    /\ startup = NoStartup
    /\ waiting = NoWaiting
    /\ mirror = NoMirror
    /\ chunks \in {[pc |-> "loop", NFRAMES |-> n, iteration |-> 0,
                     start_index |-> 0, ranges |-> <<>>, disk |-> {},
                     queue |-> <<>>, sent |-> <<>>] : n \in FrameCounts}

NextSerial ==
    \/ ChunkBegin
    \/ ChunkSubmit
    \/ ChunkNext
    \/ ChunkFlag

SpecSerial == InitSerial /\ [][NextSerial]_vars

\* C25: in a forced clean-up a deletion that fails ends neither the loop
\* nor the dispatch: every entry that was listed is either gone or among
\* those whose deletion failed, no exception leaves run(), and the
\* pipeline is called next.
C25_DeletionFailureSkipped ==
    [][/\ (pc = "force" /\ is_force /\ "flag.txt" \in proc[root].entries) =>
              /\ d'.listed = proc[root].entries
              /\ proc'[root].entries \subseteq d'.undeleted
              /\ pc' = "classify"
              /\ error' = None
       /\ (pc = "classify" /\ d.undeleted # {}) =>
              /\ pc' = "pipeline"
              /\ d'.pipeline \in {"rotational", "wedge", "serial"}
              /\ error' = None]_vars

\* one deletion failed, the other entries were removed, and a job of the
\* dispatch has been submitted
C25_Witness ==
    /\ d.flagAtForce
    /\ Cardinality(d.undeleted) = 1
    /\ Cardinality(d.listed) > 1
    /\ d.nsub > 0
    /\ error = None

\* C26: when the raw-data directory is absent at the start, main() ends
\* with a fatal error and neither waits on nor goes on to a dispatch.
C26_AbsentIsFatal ==
    (startup.pc = "wait" /\ ~startup.raw_exists /\ startup.polls > 0)
        ~> (startup.pc = "error")

\* C27: every wait for an input file ends, with the file available or
\* with a failure after the timeout.
C27_EveryWaitEnds ==
    (waiting.pc = "waiting") ~> (waiting.pc \in {"available", "failed"})

\* C28: the pending-jobs query never stops a dispatch.  Whatever the query
\* gives, run() of a usable folder goes on with a line count, zero when
\* the query failed; and with a count above MAX_PENDING_JOBS the folder is
\* only reported as skipped: the pipeline and its jobs are those of the
\* folder's method and frames per position alone.
C28_CeilingOnlyLogs ==
    [][/\ (/\ pc = "walk"
           /\ todo # <<>>
           /\ Eligible(Head(todo))
           /\ ~FramesPerPosition(info[Head(todo)].lines).raised) =>
              /\ pc' = "force"
              /\ error' = None
              /\ d'.pending \in {0, MAX_PENDING_JOBS + 1}
       /\ pc = "classify" =>
              LET lines == info[root].lines
                  pipeline == Classify(Method(lines),
                                       FramesPerPosition(lines).value)
              IN  /\ d'.skipped = (\/ d.pending > 200
                                    \/ "flag.txt" \in proc[root].entries
                                    \/ "CORRECT.LP" \in proc[root].entries
                                    \/ "XYCORR.LP" \in proc[root].entries)
                  /\ d'.pipeline = pipeline
                  /\ plan' = Prelude(pipeline, root).plan
                  /\ pc' = "pipeline"]_vars

\* the place of a line in a script, 0 when the script has no such line
LineAt(text, line) ==
    IF \E i \in DOMAIN text : text[i] = line
    THEN CHOOSE i \in DOMAIN text :
            text[i] = line /\ \A j \in 1..(i - 1) : text[j] # line
    ELSE 0

\* C29: every job script starts with the shebang line, has the job-name,
\* partition, --nodes=1, output and error directives, then the module
\* set-up, then the processing command, and is executable when submitted.
C29_ScriptLayout ==
    script.pipeline # "none" =>
        LET t == script.text
            setup == LineAt(t, "module load")
        IN  /\ t[1] = "#!/bin/sh"
            /\ \A line \in {"--job-name", "--partition", "--nodes=1",
                             "--output", "--error"} :
                  LineAt(t, line) > 1 /\ LineAt(t, line) < setup
            /\ \E i \in DOMAIN t : t[i] = "command" /\ i > setup
            /\ script.executable

\* the output paths of the directories of WalkDirs, in the same order,
\* written out by hand
Mirrored ==
    << <<"/", "p", "/">>,
       <<"/", "p", "/", "a">>,
       <<"/", "p", "/", "b">>,
       <<"/", "p", "/", "a", "b">>,
       <<"/", "p", "/", "a", "/", "b">>,
       <<"/", "p", "/", "b", "/", "a">>,
       <<"/", "p", "/", "a", "/", "a", "b">> >>

\* C30: a folder under the raw directory has one output path, the
\* processed directory followed by the folder's path below the raw
\* directory; a later call gives the same path, and two different folders
\* never get the same one.
C30_OneMirroredPath ==
    /\ ~mirror.changed
    /\ \A k \in DOMAIN mirror.out :
          mirror.out[k] # <<>> => mirror.out[k] = Mirrored[mirror.dirs[k]]
    /\ \A k \in DOMAIN mirror.out : \A l \in DOMAIN mirror.out :
          (/\ mirror.out[k] # <<>>
           /\ mirror.out[l] # <<>>
           /\ mirror.dirs[k] # mirror.dirs[l]) =>
              mirror.out[k] # mirror.out[l]

\* the folders a/b and ab of a raw directory spelt with a trailing
\* separator have both been run, the first of them twice
C30_Witness ==
    /\ mirror.calls = 3
    /\ mirror.raw_dir = <<"/", "r", "/">>
    /\ mirror.roots = << <<"/", "r", "/", "a", "/", "b">>,
                         <<"/", "r", "/", "a", "b">> >>
    /\ mirror.out = << <<"/", "p", "/", "a", "/", "b">>,
                       <<"/", "p", "/", "a", "b">> >>

\* the flag files of a folder's output directory: 0 for its own flag.txt,
\* p for the one in the subdirectory of position p
FlagsIn(dir) ==
    (IF "flag.txt" \in dir.entries THEN {0} ELSE {}) \cup dir.posflag

\* C31: a dispatch writes a flag only when every job submission of its
\* pipeline has returned: at the step that creates a flag, no job and no
\* chunk of jobs is left to be submitted.
C31_FlagAfterAllJobs ==
    [][(pc = "pipeline" /\ FlagsIn(proc'[root]) # FlagsIn(proc[root])) =>
          \A i \in DOMAIN plan' : plan'[i].op \notin {"job", "chunk"}]_vars

\* C32: a job is submitted through ssh exactly when a login node applies.
\* With reserved nodes given the login node is the first name of the list
\* and every job script of the dispatch is submitted through ssh; with
\* "maxwell" as the node setting, or with no node named, there is no login
\* node and sbatch is called directly.
C32_RelayIffLoginNode ==
    LET given == ~is_maxwell /\ configuration.reserved_nodes # ""
    IN  /\ given =>
              (/\ configuration.reserved_nodes = "max-p3a020,max-p3a021"
               /\ login_node = "max-p3a020")
        /\ is_maxwell => login_node = None
        /\ script.pipeline # "none" => (script.relay <=> given)

\* C33: in one walk with a --blocks file a folder is dispatched at most
\* once: a job is submitted for a folder only if none was submitted for it
\* before, or as a further job of the same call of run().
C33_OncePerWalk ==
    [][(pc = "pipeline" /\ d'.nsub > d.nsub) =>
          (submitted[root] = {} \/ d.nsub > 0)]_vars

\* what reading each two-line --blocks file must give is not repeated
\* here: the list read has no blank entry and no entry twice
CleanList(list) ==
    /\ \A i \in DOMAIN list : list[i] # <<>>
    /\ \A i \in DOMAIN list : \A j \in DOMAIN list :
          list[i] = list[j] => i = j

\* C34: with a --blocks file the program ends.  The file is read once,
\* into a list without blank or repeated entries; the directories of the
\* tree are taken one after the other and never a second time; main()
\* returns (or an error ends it), and after that nothing is dispatched,
\* whatever appears in the raw folders.
C34_WorklistTerminates ==
    /\ [][worklist.read =>
             worklist'.to_process = worklist.to_process]_vars
    /\ [](worklist.read => CleanList(worklist.to_process))
    /\ [][todo' = todo \/ (todo # <<>> /\ todo' = Tail(todo))]_vars
    /\ <>(pc \in {"returned", "exit"})
    /\ [][pc = "returned" =>
             (/\ pc' = "returned"
              /\ root' = root
              /\ proc' = proc
              /\ submitted' = submitted)]_vars

\* main() has returned; the listed folder /r/a has got its info.txt after
\* the walk passed it, and has no output directory and no job
C34_Witness ==
    /\ pc = "returned"
    /\ worklist.to_process = << <<"a">> >>
    /\ info["f1"].exists
    /\ Cardinality(files["f1"]) > 0
    /\ ~proc["f1"].exists
    /\ submitted["f1"] = {}
    /\ submitted["f2"] # {}

C36_ChunksOnce ==
    /\ \A i \in DOMAIN chunks.ranges :
          LET r == chunks.ranges[i]
          IN  /\ r.iteration = i - 1
              /\ r.start = 1000 * (i - 1)
              /\ r.end = IF chunks.NFRAMES < 1000 * i
                         THEN chunks.NFRAMES ELSE 1000 * i
              /\ r.start < r.end
    /\ chunks.pc = "done" =>
          IF chunks.NFRAMES = 0 THEN chunks.ranges = <<>>
          ELSE chunks.ranges[Len(chunks.ranges)].end = chunks.NFRAMES
    /\ \A i \in DOMAIN chunks.sent :
          LET r == chunks.ranges[chunks.sent[i].iteration + 1]
          IN  /\ 250 * chunks.sent[i].piece < r.end - r.start
              /\ \A j \in DOMAIN chunks.sent :
                    chunks.sent[i] = chunks.sent[j] => i = j

\* C37: for the key "frames" the function returns the value of the line
\* "frames: 100", also when a line "frames/position: 5" stands before it.
C37_ExactKeyLine ==
    (/\ extraction.called
     /\ extraction.file.exists /\ extraction.file.readable
     /\ extraction.file.lines = <<Lgrid, Lfpp5, Lframes100>>
     /\ extraction.key = "frames") =>
        extraction.returned.value =
            IF extraction.is_string THEN <<"100">>
            ELSE IF extraction.is_float THEN 10000 ELSE 100

\* C38: the clean-up step of run() changes nothing in the output
\* directories unless --force is given and the folder's output directory
\* has a flag.txt.
C38_NoFlagNoCleanup ==
    [][(pc = "force" /\ (~is_force \/ "flag.txt" \notin proc[root].entries))
          => (proc' = proc /\ pc' = "classify" /\ error' = error)]_vars

\* a forced run() has passed the clean-up step of a folder whose output
\* directory has entries but no flag.txt, and they are all still there
C38_Witness ==
    /\ is_force
    /\ pc = "classify"
    /\ root # None
    /\ ~d.flagAtForce
    /\ d.listed = {}
    /\ "flag.txt" \notin proc[root].entries
    /\ Cardinality(proc[root].entries) > 1

====
